---- MODULE Spec2Model ----
(***************************************************************************)
(* Model of the batching-and-scheduling engine of the CodeQL remediation   *)
(* orchestrator:                                                           *)
(*   - BatchingEngine   (src/src/batchingEngine.ts, lines 1-341)           *)
(*   - DevinOrchestrator (src/src/devinOrchestrator.ts)                    *)
(* PartSpec drives the partitioner on bounded inputs; Spec drives one run  *)
(* of DevinOrchestrator.processBatches against an arbitrary remote         *)
(* service, CI signal, pause signal and clock.                             *)
(***************************************************************************)
EXTENDS Integers, Sequences, FiniteSets, TLC

\* ------------------------------------------------------------------------
\* Bounds of the model
\* ------------------------------------------------------------------------
MaxAlerts == 4
MaxBatchSizeBound == 3
MaxRun == 11
NumBatches == 3
MaxConfigured == 2
MaxRateLimitHits == 3

\* ------------------------------------------------------------------------
\* Generic helpers
\* ------------------------------------------------------------------------
Min(a, b) == IF a < b THEN a ELSE b

Range(s) == {s[i] : i \in DOMAIN s}

RECURSIVE Flatten(_)
Flatten(ss) == IF ss = <<>> THEN <<>> ELSE Head(ss) \o Flatten(Tail(ss))

RECURSIVE Dedup(_)
\* keys of a JS object in insertion order: first occurrences, in order
Dedup(ks) ==
    IF ks = <<>> THEN <<>>
    ELSE LET rest == Dedup(SubSeq(ks, 1, Len(ks) - 1))
             k    == ks[Len(ks)]
         IN  IF k \in Range(rest) THEN rest ELSE Append(rest, k)

\* Array.prototype.sort with comparator key(a) - key(b): ascending and stable.
\* keys[i] is the sort key of seq[i].
StableSort(seq, keys) ==
    LET n == Len(seq)
        pos(i) == Cardinality({j \in 1..n : keys[j] < keys[i]})
                  + Cardinality({j \in 1..i : keys[j] = keys[i]})
    IN  [p \in 1..n |-> seq[CHOOSE i \in 1..n : pos(i) = p]]

\* ------------------------------------------------------------------------
\* Data model (types.ts): alerts, severities, strategies
\* ------------------------------------------------------------------------
Severity == {"critical", "high", "medium", "low", "warning", "note", "error"}

BatchingStrategy ==
    {"severity-then-cwe", "severity-only", "by-file", "by-cwe", "by-complexity"}

\* The alert attributes the partitioner reads: rule.severity, cwe (absent is
\* <<>>), location.path (as its '/'-separated segments), start_line, end_line.
AlertKinds ==
    { [severity |-> "critical", cwe |-> <<"CWE-79">>,  path |-> <<"src", "a.ts">>,
       start_line |-> 10, end_line |-> 12],
      [severity |-> "high",     cwe |-> <<"CWE-362">>, path |-> <<"src", "b.ts">>,
       start_line |-> 10, end_line |-> 50],
      [severity |-> "medium",   cwe |-> <<"CWE-79">>,  path |-> <<"lib", "c.ts">>,
       start_line |-> 10, end_line |-> 12],
      [severity |-> "error",    cwe |-> <<>>,          path |-> <<"lib", "d.ts">>,
       start_line |-> 10, end_line |-> 25],
      [severity |-> "critical", cwe |-> <<"CWE-362">>, path |-> <<"e.ts">>,
       start_line |-> 10, end_line |-> 50],
      [severity |-> "note",     cwe |-> <<"CWE-999">>, path |-> <<"f.ts">>,
       start_line |-> 10, end_line |-> 12] }

\* An input list: alert i carries number i (its identity) and a kind.
MkAlert(i, k) ==
    [number |-> i, severity |-> k.severity, cwe |-> k.cwe, path |-> k.path,
     start_line |-> k.start_line, end_line |-> k.end_line]

AlertLists ==
    UNION { { [i \in 1..n |-> MkAlert(i, f[i])] : f \in [1..n -> AlertKinds] }
            : n \in 0..MaxAlerts }

\* Longer inputs: at most one alert followed by a run of alerts of one kind,
\* MaxRun alerts in all. 'CWE-798' contains the pattern 'CWE-79'.
RunKinds ==
    { [severity |-> "critical", cwe |-> <<"CWE-79">>,  path |-> <<"src", "a.ts">>,
       start_line |-> 10, end_line |-> 12],
      [severity |-> "warning",  cwe |-> <<"CWE-798">>, path |-> <<"src", "g.ts">>,
       start_line |-> 10, end_line |-> 50],
      [severity |-> "note",     cwe |-> <<"CWE-79">>,  path |-> <<"lib", "h.ts">>,
       start_line |-> 10, end_line |-> 12] }

RunLists ==
    { [i \in 1..(m + n) |-> MkAlert(i, IF i <= m THEN h ELSE k)] :
        m \in 0..1, n \in 0..(MaxRun - 1), h \in RunKinds, k \in RunKinds }

\* The input of the priority example: two critical alerts of one category,
\* one high alert of another and two medium alerts of the first
ExampleKinds ==
    << [severity |-> "critical", cwe |-> <<"CWE-79">>,  path |-> <<"src", "a.ts">>,
        start_line |-> 10, end_line |-> 12],
       [severity |-> "critical", cwe |-> <<"CWE-79">>,  path |-> <<"src", "a.ts">>,
        start_line |-> 10, end_line |-> 12],
       [severity |-> "high",     cwe |-> <<"CWE-362">>, path |-> <<"src", "b.ts">>,
        start_line |-> 10, end_line |-> 50],
       [severity |-> "medium",   cwe |-> <<"CWE-79">>,  path |-> <<"lib", "c.ts">>,
        start_line |-> 10, end_line |-> 12],
       [severity |-> "medium",   cwe |-> <<"CWE-79">>,  path |-> <<"lib", "c.ts">>,
        start_line |-> 10, end_line |-> 12] >>

ExampleList == [i \in 1..Len(ExampleKinds) |-> MkAlert(i, ExampleKinds[i])]

\* ------------------------------------------------------------------------
\* BatchingEngine (batchingEngine.ts)
\* ------------------------------------------------------------------------
severityOrder == <<"critical", "high", "medium", "low", "warning", "note", "error">>

\* sortBySeverity's rank table (error ranks with high)
severityRank(sev) ==
    CASE sev = "critical" -> 0
      [] sev = "high"     -> 1
      [] sev = "medium"   -> 2
      [] sev = "low"      -> 3
      [] sev = "warning"  -> 4
      [] sev = "note"     -> 5
      [] sev = "error"    -> 1

severityScore(sev) ==
    CASE sev = "critical" -> 100
      [] sev = "high"     -> 80
      [] sev = "medium"   -> 60
      [] sev = "low"      -> 40
      [] sev = "warning"  -> 20
      [] sev = "note"     -> 10
      [] sev = "error"    -> 80

complexityBonus(complexity) ==
    CASE complexity = "simple"   -> 15
      [] complexity = "moderate" -> 5
      [] complexity = "complex"  -> 0 - 10
      [] OTHER                   -> 0

\* the size bonus without its cap of 20
calculatePriorityUncapped(severity, alertCount, complexity) ==
    severityScore(severity) + alertCount * 2
    + (IF complexity # "" THEN complexityBonus(complexity) ELSE 0)

\* the complexity argument left unread
calculatePriorityNoComplexity(severity, alertCount, complexity) ==
    severityScore(severity) + Min(alertCount * 2, 20)

\* complexity = "" stands for the omitted optional argument
calculatePriority(severity, alertCount, complexity) ==
    severityScore(severity) + Min(alertCount * 2, 20)
    + (IF complexity # "" THEN complexityBonus(complexity) ELSE 0)

chunkArrayDropTail(array, size) ==
    [k \in 1..(Len(array) \div size) |->
        SubSeq(array, (k - 1) * size + 1, k * size)]

\* chunks cut from the end: the short chunk comes first
chunkArrayShortFirst(array, size) ==
    LET n == Len(array)
        c == (n + size - 1) \div size
        r == n - (c - 1) * size
    IN  [k \in 1..c |->
            SubSeq(array, IF k = 1 THEN 1 ELSE r + (k - 2) * size + 1,
                          r + (k - 1) * size)]

\* for (i = 0; i < length; i += size) chunks.push(array.slice(i, i + size))
chunkArray(array, size) ==
    [k \in 1..((Len(array) + size - 1) \div size) |->
        SubSeq(array, (k - 1) * size + 1, Min(k * size, Len(array)))]

\* alert.cwe?.[0] || 'UNKNOWN'
CweKey(alert) == IF alert.cwe = <<>> THEN "UNKNOWN" ELSE alert.cwe[1]

\* groupByCWE: the groups as <<key, alerts>> pairs in key insertion order
groupByCWE(alerts) ==
    LET keys == Dedup([i \in 1..Len(alerts) |-> CweKey(alerts[i])])
    IN  [g \in 1..Len(keys) |->
            <<keys[g], SelectSeq(alerts, LAMBDA a : CweKey(a) = keys[g])>>]

\* filePath.split('/').slice(0, -1).join('/') || '/'
Directory(alert) ==
    LET segs == SubSeq(alert.path, 1, Len(alert.path) - 1)
    IN  IF segs = <<>> \/ segs = <<"">> THEN <<"/">> ELSE segs

groupByDirectory(alerts) ==
    LET keys == Dedup([i \in 1..Len(alerts) |-> Directory(alerts[i])])
    IN  [g \in 1..Len(keys) |->
            <<keys[g], SelectSeq(alerts, LAMBDA a : Directory(a) = keys[g])>>]

sortBySeverity(alerts) ==
    StableSort(alerts, [i \in 1..Len(alerts) |-> severityRank(alerts[i].severity)])

getHighestSeverity(alerts) ==
    LET present == {s \in 1..7 : \E i \in 1..Len(alerts) :
                                    alerts[i].severity = severityOrder[s]}
    IN  IF present = {} THEN "medium"
        ELSE severityOrder[CHOOSE s \in present : \A t \in present : s <= t]

simplePatterns == {"CWE-79", "CWE-89", "CWE-22", "CWE-78"}
complexPatterns == {"CWE-362", "CWE-416", "CWE-119", "CWE-190"}

\* The digits of the modelled CWE ids ('CWE-' followed by digits)
CweDigits(id) ==
    CASE id = "CWE-79"  -> <<7, 9>>
      [] id = "CWE-89"  -> <<8, 9>>
      [] id = "CWE-22"  -> <<2, 2>>
      [] id = "CWE-78"  -> <<7, 8>>
      [] id = "CWE-362" -> <<3, 6, 2>>
      [] id = "CWE-416" -> <<4, 1, 6>>
      [] id = "CWE-119" -> <<1, 1, 9>>
      [] id = "CWE-190" -> <<1, 9, 0>>
      [] id = "CWE-798" -> <<7, 9, 8>>
      [] id = "CWE-999" -> <<9, 9, 9>>

\* String.includes on ids of the form 'CWE-<digits>': the pattern can only
\* occur at the start, so its digits are a prefix of the id's digits;
\* '' (no CWE) contains no pattern.
Includes(cwe, p) ==
    /\ cwe # ""
    /\ Len(CweDigits(p)) <= Len(CweDigits(cwe))
    /\ SubSeq(CweDigits(cwe), 1, Len(CweDigits(p))) = CweDigits(p)

estimateComplexity(alert) ==
    LET cwe == IF alert.cwe = <<>> THEN "" ELSE alert.cwe[1]
        lineSpan == alert.end_line - alert.start_line
    IN  IF \E p \in simplePatterns : Includes(cwe, p) THEN "simple"
        ELSE IF \E p \in complexPatterns : Includes(cwe, p) THEN "complex"
        ELSE IF lineSpan <= 5 THEN "simple"
        ELSE IF lineSpan <= 20 THEN "moderate"
        ELSE "complex"

\* a pushed batch that is already marked in progress
NewBatchStatusStarted == "in_progress"

\* status: 'pending' of the pushed batch
NewBatchStatus == "pending"

\* The batches pushed for one group: one per chunk, groupKey <<label, part>>
\* with part = 0 when the group has a single chunk (no -partN suffix).
\* fixedSev = "" means the severity is derived with getHighestSeverity.
PushChunks(label, group, strategy, size, fixedSev, complexity) ==
    LET chunks == chunkArray(group, size)
    IN  [i \in 1..Len(chunks) |->
            LET sev == IF fixedSev # "" THEN fixedSev
                       ELSE getHighestSeverity(chunks[i])
            IN  [alerts   |-> chunks[i],
                 strategy |-> strategy,
                 groupKey |-> <<label, IF Len(chunks) > 1 THEN i ELSE 0>>,
                 severity |-> sev,
                 priority |-> calculatePriority(sev, Len(chunks[i]), complexity),
                 status   |-> NewBatchStatus]]

\* uuidv4 at each push: the emission index stands for the fresh id.
\* batches.sort((a, b) => b.priority - a.priority)
SortByPriority(emitted) ==
    LET withId == [i \in 1..Len(emitted) |->
                      [id |-> i] @@ emitted[i]]
    IN  StableSort(withId, [i \in 1..Len(withId) |-> 0 - withId[i].priority])

batchBySeverityThenCWE(alerts, size) ==
    SortByPriority(Flatten(
        [s \in 1..7 |->
            LET severityAlerts ==
                    SelectSeq(alerts, LAMBDA a : a.severity = severityOrder[s])
                cweGroups == groupByCWE(severityAlerts)
            IN  Flatten([g \in 1..Len(cweGroups) |->
                    PushChunks(<<severityOrder[s], cweGroups[g][1]>>,
                               cweGroups[g][2], "severity-then-cwe", size,
                               severityOrder[s], "")])]))

batchBySeverityOnly(alerts, size) ==
    SortByPriority(Flatten(
        [s \in 1..7 |->
            LET severityAlerts ==
                    SelectSeq(alerts, LAMBDA a : a.severity = severityOrder[s])
            IN  PushChunks(<<severityOrder[s]>>, severityAlerts,
                           "severity-only", size, severityOrder[s], "")]))

batchByFile(alerts, size) ==
    LET fileGroups == groupByDirectory(alerts)
    IN  SortByPriority(Flatten(
            [g \in 1..Len(fileGroups) |->
                PushChunks(fileGroups[g][1], sortBySeverity(fileGroups[g][2]),
                           "by-file", size, "", "")]))

batchByCWE(alerts, size) ==
    LET cweGroups == groupByCWE(alerts)
    IN  SortByPriority(Flatten(
            [g \in 1..Len(cweGroups) |->
                PushChunks(<<cweGroups[g][1]>>, sortBySeverity(cweGroups[g][2]),
                           "by-cwe", size, "", "")]))

complexityOrder == <<"simple", "moderate", "complex">>

batchByComplexity(alerts, size) ==
    SortByPriority(Flatten(
        [c \in 1..3 |->
            LET complexityAlerts ==
                    SelectSeq(alerts,
                        LAMBDA a : estimateComplexity(a) = complexityOrder[c])
            IN  PushChunks(<<complexityOrder[c]>>, sortBySeverity(complexityAlerts),
                           "by-complexity", size, "", complexityOrder[c])]))

createBatches(strategy, alerts, size) ==
    CASE strategy = "severity-then-cwe" -> batchBySeverityThenCWE(alerts, size)
      [] strategy = "severity-only"     -> batchBySeverityOnly(alerts, size)
      [] strategy = "by-file"           -> batchByFile(alerts, size)
      [] strategy = "by-cwe"            -> batchByCWE(alerts, size)
      [] strategy = "by-complexity"     -> batchByComplexity(alerts, size)
      [] OTHER                          -> batchBySeverityThenCWE(alerts, size)

\* batches.flatMap(b => b.alerts)
FlatMapAlerts(batches) == Flatten([i \in 1..Len(batches) |-> batches[i].alerts])

\* a re-plan that leaves newStrategy unread and takes the default strategy
rebatchDefaultStrategy(batches, newStrategy, size) ==
    createBatches("severity-then-cwe", FlatMapAlerts(batches), size)

\* rebatch: a new engine with newStrategy and this.maxBatchSize
rebatch(batches, newStrategy, size) ==
    createBatches(newStrategy, FlatMapAlerts(batches), size)

\* batches.map(batch => batch.id === batchId ? {...batch, priority} : batch)
WithPriority(batches, batchId, newPriority) ==
    [i \in 1..Len(batches) |->
        IF batches[i].id = batchId
        THEN [batches[i] EXCEPT !.priority = newPriority]
        ELSE batches[i]]

\* the mapped list returned as it is, without the sort
prioritizeBatchUnsorted(batches, batchId, newPriority) ==
    WithPriority(batches, batchId, newPriority)

\* prioritizeBatch: map to a new array, then sort that array by priority
prioritizeBatch(batches, batchId, newPriority) ==
    LET mapped == WithPriority(batches, batchId, newPriority)
    IN  StableSort(mapped, [i \in 1..Len(mapped) |-> 0 - mapped[i].priority])

\* the loop of getBatchSummary over the first n batches: the value of a
\* Record<key, number> under key k, where keys[i] is the key of batch i and
\* weights[i] is what the loop adds for it
RECURSIVE Tally(_, _, _, _)
Tally(keys, weights, n, k) ==
    IF n = 0 THEN 0
    ELSE Tally(keys, weights, n - 1, k) + (IF keys[n] = k THEN weights[n] ELSE 0)

\* batches.reduce((sum, b) => sum + b.alerts.length, 0)
RECURSIVE TotalAlerts(_, _)
TotalAlerts(batches, n) ==
    IF n = 0 THEN 0 ELSE TotalAlerts(batches, n - 1) + Len(batches[n].alerts)

\* summary.byStatus: one per batch under batch.status
ByStatus(batches) ==
    LET keys == [i \in 1..Len(batches) |-> batches[i].status]
        ones == [i \in 1..Len(batches) |-> 1]
    IN  [k \in Range(keys) |-> Tally(keys, ones, Len(batches), k)]

\* a bySeverity that counts one per batch
BySeverityPerBatch(batches) ==
    LET keys == [i \in 1..Len(batches) |-> batches[i].severity]
        ones == [i \in 1..Len(batches) |-> 1]
    IN  [k \in Range(keys) |-> Tally(keys, ones, Len(batches), k)]

\* summary.bySeverity: batch.alerts.length under batch.severity
BySeverity(batches) ==
    LET keys  == [i \in 1..Len(batches) |-> batches[i].severity]
        sizes == [i \in 1..Len(batches) |-> Len(batches[i].alerts)]
    IN  [k \in Range(keys) |-> Tally(keys, sizes, Len(batches), k)]

\* getBatchSummary: the two records have a key per value that occurs
getBatchSummary(batches) ==
    [totalBatches |-> Len(batches),
     totalAlerts  |-> TotalAlerts(batches, Len(batches)),
     bySeverity   |-> BySeverity(batches),
     byStatus     |-> ByStatus(batches)]

\* ------------------------------------------------------------------------
\* State
\* ------------------------------------------------------------------------
VARIABLES
    \* BatchingEngine instance and one createBatches call
    engineStrategy,      \* this.strategy
    engineMaxBatchSize,  \* this.maxBatchSize
    inputAlerts,         \* the alerts argument
    outBatches,          \* the returned list
    rebatchStrategy,     \* newStrategy of the rebatch call
    rebatched,           \* the list rebatch returned
    prioritizeArgs,      \* batchId and newPriority of the prioritizeBatch call
    prioritized,         \* the list prioritizeBatch returned
    summaryInput,        \* the batches argument of the getBatchSummary call
    summary,             \* what getBatchSummary returned
    partPc,              \* "new", "created" after createBatches, then the
                         \* call made on the list: "rebatched", "prioritized"
                         \* or "summarized"
    \* DevinOrchestrator instance and one processBatches call
    pc,                  \* position of processBatches (the await it is at)
    configured,          \* constructor argument maxParallelSessions
    maxParallelSessions, \* this.maxParallelSessions
    rateLimitHits,       \* this.rateLimitHits
    hasStarted,          \* this.lastSessionStartTime > 0
    pendingBatches,      \* local queue of batch ids
    activeSessions,      \* this.activeSessions, entries in insertion order
    status,              \* batch.status of every input batch
    pollRetries,         \* this.pollRetries (0: no entry or 0)
    pollIntervals,       \* this.pollIntervals in ms (0: no entry)
    completedSessions,   \* keys of the returned map
    cur,                 \* batch of the admission / progress step at hand
    curSession,          \* session id passed to cleanupSession
    todo,                \* rest of batchIdsToProcess
    resp,                \* HTTP outcome of the fetch just returned
    snap,                \* updatedSession of the poll at hand
    ciAttempts,          \* waitForCIChecks local
    nextSession,         \* number of sessions the remote service created
    lastSleep,           \* argument of the tick's sleep while it lasts (ms)
    \* clock, as the deadlines that have passed
    globalTimedOut,      \* Date.now() - startTime > MAX_TOTAL_POLL_TIME_MS
    batchTimedOut,       \* batches with Date.now() - start > MAX_BATCH_TIME_MS
    ciTimedOut,          \* Date.now() - ciStartTime >= CI_TIMEOUT_MS
    \* history of the calls made so far
    ceilingHit,          \* the loop was left by the global ceiling break
    terminateCalls,      \* DELETE /sessions/{id} calls per session id
    completeCalls,       \* onComplete calls per batch
    failStreak,          \* polls of the batch that failed in a row, up to now
    settledBy,           \* path that settled batch cur, until its onComplete
    ciResult,            \* what waitForCIChecks returned for batch cur
    createSpaced,        \* no create call was made yet, or a wait of at least
                         \* SESSION_START_DELAY_MS separates the next one
                         \* from the last (waits shorter than that are not
                         \* added up)
    ciSeen,              \* what getPRCheckStatus last returned in the gate
                         \* of batch cur
    ciMessages,          \* sendMessage calls of the gate of batch cur
    createOk             \* successful creates per batch

partVars == <<engineStrategy, engineMaxBatchSize, inputAlerts, outBatches,
              rebatchStrategy, rebatched, prioritizeArgs, prioritized,
              summaryInput, summary, partPc>>

ctlVars == <<pc, cur, curSession, todo, resp, snap, ciAttempts, lastSleep>>

orchVars == <<configured, maxParallelSessions, rateLimitHits, hasStarted,
              pendingBatches, activeSessions, status, pollRetries,
              pollIntervals, completedSessions, nextSession>>

clockVars == <<globalTimedOut, batchTimedOut, ciTimedOut>>

callVars == <<ceilingHit, terminateCalls, completeCalls, failStreak, settledBy,
              ciResult>>

logVars == <<createSpaced, ciSeen, ciMessages, createOk>>

histVars == <<callVars, logVars>>

schedVars == <<ctlVars, orchVars, clockVars, histVars>>

vars == <<partVars, schedVars>>

\* ------------------------------------------------------------------------
\* Program constants (devinOrchestrator.ts lines 15-31)
\* ------------------------------------------------------------------------
INITIAL_POLL_INTERVAL_MS == 10000
MAX_POLL_INTERVAL_MS == 60000
MAX_POLL_RETRIES == 5
MAX_CONCURRENT_SESSIONS == 5
MAX_CI_ATTEMPTS == 2

BatchIds == 1..NumBatches

SessionStatus ==
    {"pending", "working", "blocked", "finished", "expired", "suspended", "resumed"}

\* What a successful poll returns, as far as the loop reads it: the status,
\* structuredOutput.progress, and whether pull_request.url or
\* structuredOutput.prUrl is present.
Snapshots == [status : SessionStatus, progress : {50, 100}, pr : BOOLEAN]

NoSnap == [status |-> "none", progress |-> 0, pr |-> FALSE]

\* Outcomes of POST /sessions as startSessionWithRetry tells them apart
CreateOutcomes ==
    {"ok", "http401", "http429", "http400_limit", "http403_limit", "http403",
     "http400", "http500", "neterr"}

LimitOutcomes == {"http429", "http400_limit", "http403_limit"}

\* Outcomes of GET /sessions/{id} as pollSessionWithBackoff tells them apart
PollErrors == {"http401", "http403", "http429", "http500", "neterr"}

\* ------------------------------------------------------------------------
\* Initial states
\* ------------------------------------------------------------------------
\* no prioritizeBatch and no getBatchSummary call has been made
PartCallsIdle ==
    /\ prioritizeArgs = [batchId |-> 0, newPriority |-> 0]
    /\ prioritized = <<>>
    /\ summaryInput = <<>>
    /\ summary = getBatchSummary(<<>>)

PartIdle ==
    /\ engineStrategy = "severity-then-cwe"
    /\ engineMaxBatchSize = 1
    /\ inputAlerts = <<>>
    /\ outBatches = <<>>
    /\ rebatchStrategy = "severity-then-cwe"
    /\ rebatched = <<>>
    /\ PartCallsIdle
    /\ partPc = "idle"

\* new BatchingEngine(strategy, maxBatchSize) and an input list: short lists
\* of any kinds with small batch sizes, runs and the example with sizes up to
\* the length of the longest run
PartInit ==
    /\ engineStrategy \in BatchingStrategy
    /\ \/ /\ inputAlerts \in AlertLists
          /\ engineMaxBatchSize \in 1..MaxBatchSizeBound
       \/ /\ inputAlerts \in RunLists \cup {ExampleList}
          /\ engineMaxBatchSize \in 1..MaxRun
    /\ outBatches = <<>>
    /\ rebatchStrategy = engineStrategy
    /\ rebatched = <<>>
    /\ PartCallsIdle
    /\ partPc = "new"

\* the fields and locals of a fresh orchestrator, the batches aside
SchedFresh ==
    /\ rateLimitHits = 0
    /\ hasStarted = FALSE
    /\ pendingBatches = <<>>
    /\ activeSessions = <<>>
    /\ pollRetries = [b \in BatchIds |-> 0]
    /\ pollIntervals = [b \in BatchIds |-> 0]
    /\ completedSessions = {}
    /\ cur = 0
    /\ curSession = 0
    /\ todo = <<>>
    /\ resp = "none"
    /\ snap = NoSnap
    /\ ciAttempts = 0
    /\ nextSession = 1
    /\ lastSleep = 0
    /\ globalTimedOut = FALSE
    /\ batchTimedOut = {}
    /\ ciTimedOut = FALSE
    /\ ceilingHit = FALSE
    /\ terminateCalls = [k \in BatchIds |-> 0]
    /\ completeCalls = [b \in BatchIds |-> 0]
    /\ failStreak = [b \in BatchIds |-> 0]
    /\ settledBy = "none"
    /\ ciResult = "none"
    /\ createSpaced = TRUE
    /\ ciSeen = "none"
    /\ ciMessages = 0
    /\ createOk = [b \in BatchIds |-> 0]

SchedCommonInit ==
    /\ status = [b \in BatchIds |-> "pending"]
    /\ SchedFresh

SchedIdle ==
    /\ pc = "idle"
    /\ configured = 1
    /\ maxParallelSessions = 1
    /\ SchedCommonInit

\* constructor: Math.min(maxParallelSessions, MAX_CONCURRENT_SESSIONS - 1)
ConstructorCeiling(k) == Min(k, MAX_CONCURRENT_SESSIONS - 1)

\* new DevinOrchestrator(..., configured, ...), before processBatches is called
SchedInit ==
    /\ pc = "start"
    /\ configured \in 1..MaxConfigured
    /\ maxParallelSessions = ConstructorCeiling(configured)
    /\ SchedCommonInit

\* ------------------------------------------------------------------------
\* DevinOrchestrator.processBatches (devinOrchestrator.ts lines 81-285)
\* One action per stretch of code between two awaits.
\* ------------------------------------------------------------------------
ActiveIds == {activeSessions[i].batchId : i \in DOMAIN activeSessions}

SessionOf(b) ==
    LET i == CHOOSE i \in DOMAIN activeSessions : activeSessions[i].batchId = b
    IN  activeSessions[i].sessionId

\* a delete that takes the oldest entry of the map, not the batch's
RemoveActiveOldest(b) == Tail(activeSessions)

\* a settle path that misses the Map.delete
RemoveActiveNoop(b) == activeSessions

\* Map.delete
RemoveActive(b) == SelectSeq(activeSessions, LAMBDA e : e.batchId # b)

isSessionComplete(st) == st \in {"finished", "expired", "suspended"}

\* progress 100 alone
isProgressCompleteNoPr(sn) == sn.progress = 100

\* lines 196-197
isProgressComplete(sn) == sn.progress = 100 /\ sn.pr

\* a terminal task always taken as a success
RawSettleStatusCompleted(sn) == "completed"

\* line 221 and line 225
RawSettleStatus(sn) ==
    IF isProgressComplete(sn) THEN "completed"
    ELSE IF sn.status = "finished" THEN "completed" ELSE "failed"

\* line 269: Math.min(currentInterval * BACKOFF_MULTIPLIER, MAX_POLL_INTERVAL_MS);
\* a product that is not a whole number lies above the maximum
BackoffInterval(currentInterval) ==
    Min((currentInterval * 3) \div 2, MAX_POLL_INTERVAL_MS)

\* a 429 branch that leaves the interval to the caller's backoff
RateLimitedIntervalKept(currentInterval) == currentInterval

\* line 423: Math.min(currentInterval * BACKOFF_MULTIPLIER * 2, MAX_POLL_INTERVAL_MS)
RateLimitedInterval(currentInterval) ==
    Min(currentInterval * 3, MAX_POLL_INTERVAL_MS)

\* this.pollIntervals.get(batchId) || INITIAL_POLL_INTERVAL_MS
IntervalOrInitial(v) == IF v = 0 THEN INITIAL_POLL_INTERVAL_MS ELSE v

\* lines 277-280
MinInterval(intervals) ==
    LET vals == ({intervals[b] : b \in BatchIds} \ {0}) \cup {INITIAL_POLL_INTERVAL_MS}
    IN  CHOOSE v \in vals : \A w \in vals : v <= w

\* the guard with <= in place of <
HasCapacityInclusive == Len(activeSessions) <= maxParallelSessions

\* line 110
HasCapacity == Len(activeSessions) < maxParallelSessions

\* line 87: the pending input batches, in input order
PendingInput ==
    SelectSeq([i \in 1..NumBatches |-> i], LAMBDA b : status[b] = "pending")

\* a rate-limited batch that is not put back
RequeueDropped(batch, queue) == queue

\* push in place of unshift
RequeueAtBack(batch, queue) == Append(queue, batch)

\* line 128: pendingBatches.unshift(batch)
Requeue(batch, queue) == <<batch>> \o queue

\* admission that leaves the status field alone
StatusOnAdmitUnset(st, b) == st

\* line 146: batch.status = 'in_progress'
StatusOnAdmit(st, b) == [st EXCEPT ![b] = "in_progress"]

Start ==
    /\ pc = "start"
    /\ pendingBatches' = PendingInput
    /\ completedSessions' = {}
    /\ pc' = "loop"
    /\ UNCHANGED <<cur, curSession, todo, resp, snap, ciAttempts, lastSleep>>
    /\ UNCHANGED <<configured, maxParallelSessions, rateLimitHits, hasStarted,
                   activeSessions, status, pollRetries, pollIntervals,
                   nextSession>>
    /\ UNCHANGED <<clockVars, histVars, partVars>>

\* a loop without the check of the total time
CeilingNeverExceeded(timedOut) == FALSE

\* line 97: Date.now() - startTime > MAX_TOTAL_POLL_TIME_MS
CeilingExceeded(timedOut) == timedOut

\* lines 93-102: loop guard, global ceiling, call of checkPaused
LoopTop ==
    /\ pc = "loop"
    /\ IF pendingBatches = <<>> /\ activeSessions = <<>>
       THEN pc' = "returned" /\ UNCHANGED ceilingHit
       ELSE IF CeilingExceeded(globalTimedOut)
            THEN pc' = "returned" /\ ceilingHit' = TRUE
            ELSE pc' = "check_paused" /\ UNCHANGED ceilingHit
    /\ UNCHANGED <<cur, curSession, todo, resp, snap, ciAttempts, lastSleep>>
    /\ UNCHANGED <<orchVars, clockVars, partVars>>
    /\ UNCHANGED <<terminateCalls, completeCalls, failStreak, settledBy, ciResult,
                   logVars>>

\* lines 102-106: checkPaused returns
CheckPaused ==
    /\ pc = "check_paused"
    /\ \E paused \in BOOLEAN :
          pc' = IF paused THEN "pause_sleep" ELSE "admit"
    /\ UNCHANGED <<cur, curSession, todo, resp, snap, ciAttempts, lastSleep>>
    /\ UNCHANGED <<orchVars, clockVars, histVars, partVars>>

\* a pause branch without its continue: admission follows the sleep
AfterPauseSleepFallThrough == "admit"

\* line 105: continue
AfterPauseSleep == "loop"

\* lines 104-105: sleep(5000) returns, continue
PauseSleep ==
    /\ pc = "pause_sleep"
    /\ pc' = AfterPauseSleep
    /\ UNCHANGED <<cur, curSession, todo, resp, snap, ciAttempts, lastSleep>>
    /\ UNCHANGED <<orchVars, clockVars, histVars, partVars>>

\* an admission that reads the head of the queue and leaves it there
ShiftAndCreateKeepsHead ==
    /\ cur' = Head(pendingBatches)
    /\ pendingBatches' = pendingBatches
    /\ createSpaced' = FALSE
    /\ pc' = "create"

\* lines 122-124: shift the head of the queue and call startSessionWithRetry
ShiftAndCreate ==
    /\ cur' = Head(pendingBatches)
    /\ pendingBatches' = Tail(pendingBatches)
    /\ createSpaced' = FALSE
    /\ pc' = "create"

\* line 160: batchIdsToProcess = Array.from(this.activeSessions.keys())
ToProcess(active) == [i \in 1..Len(active) |-> active[i].batchId]

\* lines 109-119 and 160: inner loop guard; the start delay is due when an
\* earlier session start lies less than SESSION_START_DELAY_MS back
Admit ==
    /\ pc = "admit"
    /\ IF HasCapacity /\ pendingBatches # <<>>
       THEN /\ \/ /\ hasStarted
                  /\ pc' = "start_delay"
                  /\ UNCHANGED <<cur, pendingBatches, createSpaced>>
               \/ ShiftAndCreate
            /\ UNCHANGED todo
       ELSE /\ todo' = ToProcess(activeSessions)
            /\ pc' = "for"
            /\ UNCHANGED <<cur, pendingBatches, createSpaced>>
    /\ UNCHANGED <<curSession, resp, snap, ciAttempts, lastSleep>>
    /\ UNCHANGED <<configured, maxParallelSessions, rateLimitHits, hasStarted,
                   activeSessions, status, pollRetries, pollIntervals,
                   completedSessions, nextSession>>
    /\ UNCHANGED <<clockVars, callVars, ciSeen, ciMessages, createOk, partVars>>

\* line 118: sleep(waitTime) returns
StartDelay ==
    /\ pc = "start_delay"
    /\ ShiftAndCreate
    /\ UNCHANGED <<curSession, todo, resp, snap, ciAttempts, lastSleep>>
    /\ UNCHANGED <<configured, maxParallelSessions, rateLimitHits, hasStarted,
                   activeSessions, status, pollRetries, pollIntervals,
                   completedSessions, nextSession>>
    /\ UNCHANGED <<clockVars, callVars, ciSeen, ciMessages, createOk, partVars>>

\* line 336: the POST returns (or throws)
CreateResponse ==
    /\ pc = "create"
    /\ \E r \in CreateOutcomes : resp' = r
    /\ pc' = "create_resp"
    /\ UNCHANGED <<cur, curSession, todo, snap, ciAttempts, lastSleep>>
    /\ UNCHANGED <<orchVars, clockVars, histVars, partVars>>

\* startSessionWithRetry lines 350-402: which results throw out of the run
CreateIsFatal(r) == r \in {"http401", "http403"}

\* an admission that makes no callback
AfterCreateOkSilent == "admit"

\* line 153: await onProgress(batch, session)
AfterCreateOk == "admit_progress"

\* lines 350-402 and 140-156
HandleCreate ==
    /\ pc = "create_resp"
    /\ resp' = "none"
    /\ IF CreateIsFatal(resp)
       THEN /\ pc' = "aborted"
            /\ UNCHANGED <<cur, activeSessions, pollRetries, pollIntervals,
                           hasStarted, status, nextSession, batchTimedOut,
                           createSpaced, createOk>>
       ELSE IF resp \in LimitOutcomes
       THEN /\ pc' = "rate_limit_sleep"
            /\ UNCHANGED <<cur, activeSessions, pollRetries, pollIntervals,
                           hasStarted, status, nextSession, batchTimedOut,
                           createSpaced, createOk>>
       ELSE IF resp = "ok"
       THEN /\ activeSessions' =
                   Append(activeSessions, [batchId |-> cur, sessionId |-> nextSession])
            /\ nextSession' = nextSession + 1
            /\ pollRetries' = [pollRetries EXCEPT ![cur] = 0]
            /\ pollIntervals' = [pollIntervals EXCEPT ![cur] = INITIAL_POLL_INTERVAL_MS]
            /\ batchTimedOut' = batchTimedOut \ {cur}
            /\ hasStarted' = TRUE
            /\ createSpaced' = TRUE
            /\ createOk' = [createOk EXCEPT ![cur] = @ + 1]
            /\ status' = StatusOnAdmit(status, cur)
            /\ pc' = AfterCreateOk
            /\ UNCHANGED cur
       ELSE /\ pc' = "admit"
            /\ cur' = 0
            /\ UNCHANGED <<activeSessions, pollRetries, pollIntervals,
                           hasStarted, status, nextSession, batchTimedOut,
                           createSpaced, createOk>>
    /\ UNCHANGED <<curSession, todo, snap, ciAttempts, lastSleep>>
    /\ UNCHANGED <<configured, maxParallelSessions, rateLimitHits,
                   pendingBatches, completedSessions>>
    /\ UNCHANGED <<globalTimedOut, ciTimedOut, callVars, ciSeen, ciMessages,
                   partVars>>

\* the reduction without its floor of one
ReducedCeilingNoFloor(hits, ceiling) ==
    IF hits >= 3 THEN ceiling - 1 ELSE ceiling

\* lines 133-136
ReducedCeiling(hits, ceiling) ==
    IF hits >= 3 /\ ceiling > 1 THEN ceiling - 1 ELSE ceiling

\* line 130: this.rateLimitHits++. The counter is read by line 133 alone, as
\* rateLimitHits >= 3, so from MaxRateLimitHits >= 3 on it is kept as it is.
CountHit(hits) == Min(hits + 1, MaxRateLimitHits)

\* lines 360/369 (sleep(RATE_LIMIT_WAIT_MS) returns) and 126-139, 160
RateLimitSleep ==
    /\ pc = "rate_limit_sleep"
    /\ pendingBatches' = Requeue(cur, pendingBatches)
    /\ rateLimitHits' = CountHit(rateLimitHits)
    /\ maxParallelSessions' = ReducedCeiling(rateLimitHits + 1, maxParallelSessions)
    /\ cur' = 0
    /\ todo' = ToProcess(activeSessions)
    /\ createSpaced' = TRUE
    /\ pc' = "for"
    /\ UNCHANGED <<curSession, resp, snap, ciAttempts, lastSleep>>
    /\ UNCHANGED <<configured, hasStarted, activeSessions, status,
                   pollRetries, pollIntervals, completedSessions, nextSession>>
    /\ UNCHANGED <<clockVars, callVars, ciSeen, ciMessages, createOk, partVars>>

\* line 153: onProgress returns, back to the inner loop guard
AdmitProgress ==
    /\ pc = "admit_progress"
    /\ cur' = 0
    /\ pc' = "admit"
    /\ UNCHANGED <<curSession, todo, resp, snap, ciAttempts, lastSleep>>
    /\ UNCHANGED <<orchVars, clockVars, histVars, partVars>>

\* a map that gets an entry on every settle path
RecordSessionAlways(sessions, b, how) == sessions \cup {b}

\* line 234: completedSessions.set(batchId, updatedSession), on the terminal
\* path alone
RecordSession(sessions, b, how) ==
    IF how = "terminal" THEN sessions \cup {b} ELSE sessions

\* A batch leaves the active set: lines 172-177, 228-238, 254-259.
\* how is the path ("timeout", "terminal", "retries"); ci is what the gate
\* returned ("none" when it did not run).
SettleBatch(b, newStatus, how, ci) ==
    /\ status' = [status EXCEPT ![b] = newStatus]
    /\ activeSessions' = RemoveActive(b)
    /\ pollRetries' = [pollRetries EXCEPT ![b] = 0]
    /\ pollIntervals' = [pollIntervals EXCEPT ![b] = 0]
    /\ batchTimedOut' = batchTimedOut \ {b}
    /\ completedSessions' = RecordSession(completedSessions, b, how)
    /\ failStreak' = [failStreak EXCEPT ![b] = IF how = "retries" THEN @ + 1 ELSE 0]
    /\ settledBy' = how
    /\ ciResult' = ci
    /\ curSession' = SessionOf(b)
    /\ pc' = "cleanup"

settleVars == <<status, activeSessions, pollRetries, pollIntervals, batchTimedOut,
                completedSessions, failStreak, settledBy, ciResult, curSession>>

\* lines 163-186 and 276-281: next batch of the for loop; per-batch timeout;
\* after the last one the tick's sleep is called
ForNext ==
    /\ pc = "for"
    /\ IF todo = <<>>
       THEN /\ lastSleep' = MinInterval(pollIntervals)
            /\ pc' = "tick"
            /\ UNCHANGED <<todo, cur, settleVars>>
       ELSE /\ todo' = Tail(todo)
            /\ UNCHANGED lastSleep
            /\ IF Head(todo) \notin ActiveIds
               THEN /\ pc' = "for"
                    /\ UNCHANGED <<cur, settleVars>>
               ELSE IF Head(todo) \in batchTimedOut
               THEN /\ cur' = Head(todo)
                    /\ SettleBatch(Head(todo), "failed", "timeout", "none")
               ELSE /\ cur' = Head(todo)
                    /\ pc' = "poll"
                    /\ UNCHANGED settleVars
    /\ UNCHANGED <<resp, snap, ciAttempts>>
    /\ UNCHANGED <<configured, maxParallelSessions, rateLimitHits, hasStarted,
                   pendingBatches, nextSession>>
    /\ UNCHANGED <<globalTimedOut, ciTimedOut, ceilingHit, terminateCalls,
                   completeCalls, logVars, partVars>>

\* line 414: the GET returns (or throws)
PollResponse ==
    /\ pc = "poll"
    /\ \/ \E r \in PollErrors : resp' = r /\ snap' = NoSnap
       \/ \E sn \in Snapshots : resp' = "ok" /\ snap' = sn
    /\ pc' = "poll_resp"
    /\ UNCHANGED <<cur, curSession, todo, ciAttempts, lastSleep>>
    /\ UNCHANGED <<orchVars, clockVars, histVars, partVars>>

\* pollSessionWithBackoff lines 421-467: which results throw out of the run
PollIsFatal(r) == r = "http401"

\* pollSessionWithBackoff lines 421-425 and 443-444: the interval it leaves
IntervalAfterPoll(r, v) ==
    IF r = "http429" THEN RateLimitedInterval(IntervalOrInitial(v))
    ELSE IF r = "ok" THEN INITIAL_POLL_INTERVAL_MS
    ELSE v

\* a successful poll that leaves the retry count as it is
RetriesAfterSuccessKept(retries) == retries

\* line 190: this.pollRetries.set(batchId, 0)
RetriesAfterSuccess(retries) == 0

\* lines 421-467, 188-192 and 247-273
HandlePoll ==
    /\ pc = "poll_resp"
    /\ resp' = "none"
    /\ IF PollIsFatal(resp)
       THEN /\ pc' = "aborted"
            /\ UNCHANGED settleVars
       ELSE IF resp = "ok"
       THEN /\ pollIntervals' =
                  [pollIntervals EXCEPT ![cur] = IntervalAfterPoll(resp, @)]
            /\ pollRetries' = [pollRetries EXCEPT ![cur] = RetriesAfterSuccess(@)]
            /\ failStreak' = [failStreak EXCEPT ![cur] = 0]
            /\ pc' = "poll_progress"
            /\ UNCHANGED <<status, activeSessions, batchTimedOut, completedSessions,
                           settledBy, ciResult, curSession>>
       ELSE IF pollRetries[cur] + 1 >= MAX_POLL_RETRIES
       THEN SettleBatch(cur, "failed", "retries", "none")
       ELSE /\ pollRetries' = [pollRetries EXCEPT ![cur] = @ + 1]
            /\ failStreak' = [failStreak EXCEPT ![cur] = @ + 1]
            /\ pollIntervals' =
                  [pollIntervals EXCEPT ![cur] =
                      BackoffInterval(IntervalOrInitial(IntervalAfterPoll(resp, @)))]
            /\ pc' = "for"
            /\ UNCHANGED <<status, activeSessions, batchTimedOut, completedSessions,
                           settledBy, ciResult, curSession>>
    /\ UNCHANGED <<cur, todo, snap, ciAttempts, lastSleep>>
    /\ UNCHANGED <<configured, maxParallelSessions, rateLimitHits, hasStarted,
                   pendingBatches, nextSession>>
    /\ UNCHANGED <<globalTimedOut, ciTimedOut, ceilingHit, terminateCalls,
                   completeCalls, logVars, partVars>>

\* lines 195-199
IsTerminal(sn) == isSessionComplete(sn.status) \/ isProgressComplete(sn)

\* lines 192-209 and 223-238: onProgress returns; terminal test; without a PR
\* reference the batch settles from the raw status
PollProgress ==
    /\ pc = "poll_progress"
    /\ IF ~IsTerminal(snap)
       THEN /\ pc' = "for"
            /\ snap' = NoSnap
            /\ UNCHANGED settleVars
       ELSE IF snap.pr
       THEN /\ pc' = "update_pr"
            /\ UNCHANGED <<snap, settleVars>>
       ELSE /\ SettleBatch(cur, RawSettleStatus(snap), "terminal", "none")
            /\ snap' = NoSnap
    /\ UNCHANGED <<cur, todo, resp, ciAttempts, lastSleep>>
    /\ UNCHANGED <<configured, maxParallelSessions, rateLimitHits, hasStarted,
                   pendingBatches, nextSession>>
    /\ UNCHANGED <<globalTimedOut, ciTimedOut, ceilingHit, terminateCalls,
                   completeCalls, logVars, partVars>>

\* lines 209-213 and 657-663: updatePRDescription returns, waitForCIChecks
\* starts and enters its loop (0 attempts, 0 ms elapsed)
UpdatePR ==
    /\ pc = "update_pr"
    /\ ciAttempts' = 0
    /\ ciTimedOut' = FALSE
    /\ ciSeen' = "none"
    /\ ciMessages' = 0
    /\ pc' = "ci_sleep"
    /\ UNCHANGED <<cur, curSession, todo, resp, snap, lastSleep>>
    /\ UNCHANGED <<orchVars, globalTimedOut, batchTimedOut, callVars,
                   createSpaced, createOk, partVars>>

\* line 663: sleep(CI_POLL_INTERVAL_MS) returns, getPRCheckStatus is called
CiSleep ==
    /\ pc = "ci_sleep"
    /\ createSpaced' = TRUE
    /\ pc' = "ci_check"
    /\ UNCHANGED <<cur, curSession, todo, resp, snap, ciAttempts, lastSleep>>
    /\ UNCHANGED <<orchVars, clockVars, callVars, ciSeen, ciMessages, createOk,
                   partVars>>

\* the loop guard with <= in place of <
GateContinuesInclusive(attempts, timedOut) == attempts <= MAX_CI_ATTEMPTS /\ ~timedOut

\* line 662: the loop guard of waitForCIChecks
GateContinues(attempts, timedOut) == attempts < MAX_CI_ATTEMPTS /\ ~timedOut

\* a gate result that alone decides the status
GateSettleStatusStrict(passed, sn) == IF passed THEN "completed" ELSE "failed"

\* lines 215-222: the batch status after the gate
GateSettleStatus(passed, sn) ==
    IF passed THEN "completed" ELSE RawSettleStatus(sn)

\* waitForCIChecks returns passed; lines 215-238
GateReturn(passed) ==
    /\ SettleBatch(cur, GateSettleStatus(passed, snap), "terminal",
                   IF passed THEN "passed" ELSE "failed")
    /\ snap' = NoSnap

\* back at the loop guard of waitForCIChecks with the given attempts
GateLoop(attempts) ==
    IF GateContinues(attempts, ciTimedOut)
    THEN pc' = "ci_sleep" /\ UNCHANGED <<snap, settleVars>>
    ELSE GateReturn(FALSE)

\* a failure that is always answered by a message
AttemptsRemainAlways(attempts) == TRUE

\* line 675: if (ciAttempts < MAX_CI_ATTEMPTS), after the increment
AttemptsRemain(attempts) == attempts < MAX_CI_ATTEMPTS

\* lines 665-682: getPRCheckStatus returns; after a failure with attempts
\* left sendMessage is called
CiCheck ==
    /\ pc = "ci_check"
    /\ \E ciStatus \in {"success", "failure", "pending"} :
          /\ ciSeen' = ciStatus
          /\ IF ciStatus = "success"
             THEN GateReturn(TRUE) /\ UNCHANGED <<ciAttempts, ciMessages>>
             ELSE IF ciStatus = "failure"
             THEN /\ ciAttempts' = ciAttempts + 1
                  /\ IF AttemptsRemain(ciAttempts + 1)
                     THEN /\ ciMessages' = ciMessages + 1
                          /\ pc' = "ci_message"
                          /\ UNCHANGED <<snap, settleVars>>
                     ELSE GateLoop(ciAttempts + 1) /\ UNCHANGED ciMessages
             ELSE GateLoop(ciAttempts) /\ UNCHANGED <<ciAttempts, ciMessages>>
    /\ UNCHANGED <<cur, todo, resp, lastSleep>>
    /\ UNCHANGED <<configured, maxParallelSessions, rateLimitHits, hasStarted,
                   pendingBatches, nextSession>>
    /\ UNCHANGED <<globalTimedOut, ciTimedOut, ceilingHit, terminateCalls,
                   completeCalls, createSpaced, createOk, partVars>>

\* lines 675-678: sendMessage returns (its result is not read)
CiMessage ==
    /\ pc = "ci_message"
    /\ GateLoop(ciAttempts)
    /\ UNCHANGED <<cur, todo, resp, ciAttempts, lastSleep>>
    /\ UNCHANGED <<configured, maxParallelSessions, rateLimitHits, hasStarted,
                   pendingBatches, nextSession>>
    /\ UNCHANGED <<globalTimedOut, ciTimedOut, ceilingHit, terminateCalls,
                   completeCalls, logVars, partVars>>

\* a cleanup that sends no request
TerminateSessionSkipped(calls, sessionId) == calls

\* terminateSession: one DELETE /sessions/{id} request
TerminateSession(calls, sessionId) == [calls EXCEPT ![sessionId] = @ + 1]

\* lines 180, 242, 262 and 550-558: cleanupSession calls terminateSession,
\* whose result is only logged
Cleanup ==
    /\ pc = "cleanup"
    /\ terminateCalls' = TerminateSession(terminateCalls, curSession)
    /\ pc' = "complete"
    /\ UNCHANGED <<cur, curSession, todo, resp, snap, ciAttempts, lastSleep>>
    /\ UNCHANGED <<orchVars, clockVars, partVars>>
    /\ UNCHANGED <<ceilingHit, completeCalls, failStreak, settledBy, ciResult,
                   logVars>>

\* lines 182, 245, 265: onComplete is called and returns; the locals of the
\* batch's iteration go out of scope
Complete ==
    /\ pc = "complete"
    /\ completeCalls' = [completeCalls EXCEPT ![cur] = @ + 1]
    /\ failStreak' = [failStreak EXCEPT ![cur] = 0]
    /\ cur' = 0
    /\ curSession' = 0
    /\ settledBy' = "none"
    /\ ciResult' = "none"
    /\ ciAttempts' = 0
    /\ ciTimedOut' = FALSE
    /\ ciSeen' = "none"
    /\ ciMessages' = 0
    /\ pc' = "for"
    /\ UNCHANGED <<todo, resp, snap, lastSleep>>
    /\ UNCHANGED <<orchVars, globalTimedOut, batchTimedOut, partVars>>
    /\ UNCHANGED <<ceilingHit, terminateCalls, createSpaced, createOk>>

\* line 281: sleep(minInterval) returns
Tick ==
    /\ pc = "tick"
    /\ pc' = "loop"
    /\ lastSleep' = 0
    /\ UNCHANGED <<cur, curSession, todo, resp, snap, ciAttempts>>
    /\ UNCHANGED <<orchVars, clockVars, histVars, partVars>>

\* ------------------------------------------------------------------------
\* The clock. Every await may take any time, so a deadline can pass at any
\* point of the run; batches started earlier reach their deadline earlier.
\* ------------------------------------------------------------------------
Running == pc \notin {"idle", "start", "returned", "aborted"}

\* Date.now() - startTime > MAX_TOTAL_POLL_TIME_MS becomes true (line 97)
GlobalDeadline ==
    /\ Running
    /\ ~globalTimedOut
    /\ globalTimedOut' = TRUE
    /\ UNCHANGED <<ctlVars, orchVars, batchTimedOut, ciTimedOut, histVars, partVars>>

\* Date.now() - batchStartTime > MAX_BATCH_TIME_MS becomes true (line 170)
BatchDeadline ==
    /\ Running
    /\ \E i \in DOMAIN activeSessions :
          /\ activeSessions[i].batchId \notin batchTimedOut
          /\ \A j \in 1..(i - 1) : activeSessions[j].batchId \in batchTimedOut
          /\ batchTimedOut' = batchTimedOut \cup {activeSessions[i].batchId}
    /\ UNCHANGED <<ctlVars, orchVars, globalTimedOut, ciTimedOut, histVars, partVars>>

\* Date.now() - ciStartTime >= CI_TIMEOUT_MS becomes true (line 662)
CiDeadline ==
    /\ pc \in {"ci_sleep", "ci_check", "ci_message"}
    /\ ~ciTimedOut
    /\ ciTimedOut' = TRUE
    /\ UNCHANGED <<ctlVars, orchVars, globalTimedOut, batchTimedOut, histVars, partVars>>

\* ------------------------------------------------------------------------
\* Specifications
\* ------------------------------------------------------------------------
SchedNext ==
    \/ Start \/ LoopTop \/ CheckPaused \/ PauseSleep
    \/ Admit \/ StartDelay \/ CreateResponse \/ HandleCreate
    \/ RateLimitSleep \/ AdmitProgress
    \/ ForNext \/ PollResponse \/ HandlePoll \/ PollProgress
    \/ UpdatePR \/ CiSleep \/ CiCheck \/ CiMessage
    \/ Cleanup \/ Complete \/ Tick
    \/ GlobalDeadline \/ BatchDeadline \/ CiDeadline

Init == PartIdle /\ SchedInit

Next == SchedNext

Spec == Init /\ [][Next]_vars

\* processBatches called with a list of which the first FairPending batches
\* are pending and the others were completed by an earlier call (line 87
\* takes the pending ones)
FairPending == 2

FairInit ==
    /\ PartIdle
    /\ pc = "start"
    /\ configured \in 1..MaxConfigured
    /\ maxParallelSessions = ConstructorCeiling(configured)
    /\ status = [b \in BatchIds |-> IF b <= FairPending THEN "pending" ELSE "completed"]
    /\ SchedFresh

\* the steps of the program itself: every call, callback and sleep returns
ProgramStep ==
    \/ Start \/ LoopTop \/ CheckPaused \/ PauseSleep
    \/ Admit \/ StartDelay \/ CreateResponse \/ HandleCreate
    \/ RateLimitSleep \/ AdmitProgress
    \/ ForNext \/ PollResponse \/ HandlePoll \/ PollProgress
    \/ UpdatePR \/ CiSleep \/ CiCheck \/ CiMessage
    \/ Cleanup \/ Complete \/ Tick

\* The run under a clock that advances: the total time and the time of a
\* gate pass their limits when given long enough.
FairSpec ==
    /\ FairInit
    /\ [][Next]_vars
    /\ WF_vars(ProgramStep)
    /\ WF_vars(GlobalDeadline)
    /\ WF_vars(CiDeadline)

\* BatchingEngine.createBatches (batchingEngine.ts lines 12-27)
CreateBatches ==
    /\ partPc = "new"
    /\ outBatches' = createBatches(engineStrategy, inputAlerts, engineMaxBatchSize)
    /\ partPc' = "created"
    /\ UNCHANGED <<engineStrategy, engineMaxBatchSize, inputAlerts,
                   rebatchStrategy, rebatched, prioritizeArgs, prioritized,
                   summaryInput, summary, schedVars>>

\* BatchingEngine.rebatch (batchingEngine.ts lines 301-306) on the list
\* createBatches returned
Rebatch ==
    /\ partPc = "created"
    /\ \E newStrategy \in BatchingStrategy :
          /\ rebatchStrategy' = newStrategy
          /\ rebatched' = rebatch(outBatches, newStrategy, engineMaxBatchSize)
    /\ partPc' = "rebatched"
    /\ UNCHANGED <<engineStrategy, engineMaxBatchSize, inputAlerts, outBatches,
                   prioritizeArgs, prioritized, summaryInput, summary, schedVars>>

\* the newPriority arguments tried: one that ties with or falls between the
\* priorities createBatches gives, one above them all
PriorityInputs == {82, 1000}

\* BatchingEngine.prioritizeBatch (batchingEngine.ts lines 308-315) on the
\* list createBatches returned; batchId 0 is an id no batch has
PrioritizeBatch ==
    /\ partPc = "created"
    /\ \E batchId \in 0..Len(outBatches), newPriority \in PriorityInputs :
          /\ prioritizeArgs' = [batchId |-> batchId, newPriority |-> newPriority]
          /\ prioritized' = prioritizeBatch(outBatches, batchId, newPriority)
    /\ partPc' = "prioritized"
    /\ UNCHANGED <<engineStrategy, engineMaxBatchSize, inputAlerts, outBatches,
                   rebatchStrategy, rebatched, summaryInput, summary, schedVars>>

\* The list after a run that settled its first k batches: processBatches
\* writes batch.status of the batches it is given (lines 146, 172, 217-225,
\* 254).
SettledPrefix(batches, k) ==
    [i \in 1..Len(batches) |->
        IF i > k THEN batches[i]
        ELSE [batches[i] EXCEPT !.status =
                 IF i % 2 = 1 THEN "completed" ELSE "failed"]]

\* BatchingEngine.getBatchSummary (batchingEngine.ts lines 321-340) on the
\* list createBatches returned, fresh (index.ts line 86) or partly settled
GetBatchSummary ==
    /\ partPc = "created"
    /\ \E k \in 0..Min(Len(outBatches), 2) :
          /\ summaryInput' = SettledPrefix(outBatches, k)
          /\ summary' = getBatchSummary(SettledPrefix(outBatches, k))
    /\ partPc' = "summarized"
    /\ UNCHANGED <<engineStrategy, engineMaxBatchSize, inputAlerts, outBatches,
                   rebatchStrategy, rebatched, prioritizeArgs, prioritized,
                   schedVars>>

PartNext == CreateBatches \/ Rebatch \/ PrioritizeBatch \/ GetBatchSummary

PartSpecInit == PartInit /\ SchedIdle

PartSpec == PartSpecInit /\ [][PartNext]_vars

\* ------------------------------------------------------------------------
\* Properties
\* ------------------------------------------------------------------------

\* Places <<i, j>> of the returned batches that hold alert a
PlacesOf(a) ==
    {ij \in (DOMAIN outBatches) \X (DOMAIN inputAlerts) :
        /\ ij[2] <= Len(outBatches[ij[1]].alerts)
        /\ outBatches[ij[1]].alerts[ij[2]] = a}

\* C1: for every strategy, input list and positive maxBatchSize N, every
\* returned batch holds between 1 and N alerts, every input alert is in
\* exactly one batch, and the batches hold nothing but input alerts.
C1_SizesAndPartition ==
    partPc \in {"created", "rebatched"} =>
        /\ \A i \in DOMAIN outBatches :
              /\ 1 <= Len(outBatches[i].alerts)
              /\ Len(outBatches[i].alerts) <= engineMaxBatchSize
        /\ \A k \in DOMAIN inputAlerts : Cardinality(PlacesOf(inputAlerts[k])) = 1
        /\ \A i \in DOMAIN outBatches :
              Range(outBatches[i].alerts) \subseteq Range(inputAlerts)

\* C1 witness: a call whose input has a group larger than N, split into a
\* full chunk and a shorter last one
C1_Witness ==
    /\ partPc = "created"
    /\ engineMaxBatchSize = 2
    /\ Len(inputAlerts) = 4
    /\ \E i, j \in DOMAIN outBatches :
          /\ outBatches[i].groupKey[2] = 1 /\ Len(outBatches[i].alerts) = 2
          /\ outBatches[j].groupKey[2] = 2 /\ Len(outBatches[j].alerts) = 1
          /\ outBatches[i].groupKey[1] = outBatches[j].groupKey[1]

\* C2: with a configured ceiling k and more than k pending batches, the
\* number of active sessions never exceeds k.
C2_ActiveWithinCeiling ==
    NumBatches > configured => Len(activeSessions) <= configured

\* C2 witness: the admission guard is reached with k = 2 sessions active and
\* a batch still waiting
C2_Witness ==
    /\ pc = "admit"
    /\ configured = 2
    /\ Len(activeSessions) = 2
    /\ pendingBatches # <<>>

\* C3: when processBatches returns without a Fatal abort and without the
\* global ceiling, every batch passed in as pending is completed or failed.
C3_AllSettledOnReturn ==
    (pc = "returned" /\ ~ceilingHit) =>
        \A b \in BatchIds : status[b] \in {"completed", "failed"}

\* C4 as stated: a batch that passed its per-batch timeout without settling
\* becomes failed and its session is terminated; so processBatches does not
\* return while such a batch is still active.
C4_TimedOutBatchFails ==
    pc = "returned" => \A b \in batchTimedOut : status[b] = "failed" /\ b \notin ActiveIds

\* C4 amended, the per-batch timeout check (line 170): a step of the for loop
\* that finds its batch active and over the limit settles it by timeout
C4_CheckSettles ==
    (/\ pc = "for" /\ todo # <<>> /\ todo' # todo
     /\ Head(todo) \in ActiveIds /\ Head(todo) \in batchTimedOut)
    => (settledBy' = "timeout" /\ cur' = Head(todo))

\* C4 amended, the settlement: the batch is failed and out of the active map,
\* and terminate has been called on its session once when onComplete is
\* called; no session is ever terminated twice
C4_TimeoutState ==
    /\ \A k \in BatchIds : terminateCalls[k] <= 1
    /\ settledBy = "timeout" =>
          /\ pc \in {"cleanup", "complete"}
          /\ status[cur] = "failed"
          /\ cur \notin ActiveIds
          /\ terminateCalls[curSession] = (IF pc = "complete" THEN 1 ELSE 0)

\* C4 (amended): when the per-batch timeout check finds an active batch over
\* its limit, the batch becomes failed, leaves the active map and terminate
\* is called on its session exactly once.
C4_TimeoutFailsAndTerminatesOnce ==
    [][C4_CheckSettles]_vars /\ []C4_TimeoutState

\* C4 witness: onComplete is about to be called for a batch settled by the
\* timeout check
C4_Witness ==
    /\ pc = "complete"
    /\ settledBy = "timeout"
    /\ status[cur] = "failed"
    /\ terminateCalls[curSession] = 1

\* A create or poll response that reports an authentication (401) or
\* authorization (403) failure
FatalResponse ==
    /\ pc \in {"create_resp", "poll_resp"}
    /\ resp \in {"http401", "http403"}

\* C5: any Fatal outcome (authentication or authorization failure) of create
\* or poll aborts processBatches at once, leaving every batch status as it
\* is, and nothing is called after the abort.
C5_FatalAborts ==
    [][/\ (FatalResponse /\ resp' # resp) => (pc' = "aborted" /\ status' = status)
       /\ pc = "aborted" => UNCHANGED vars]_vars

C7_GateStopsAtCeiling ==
    /\ ciAttempts <= MAX_CI_ATTEMPTS
    /\ ciAttempts = MAX_CI_ATTEMPTS =>
          /\ pc \in {"cleanup", "complete"}
          /\ ciResult = "failed"
    /\ ciResult = "passed" => ciAttempts < MAX_CI_ATTEMPTS

\* C7 witness: the gate returned false on the second failure, before its
\* timeout
C7_Witness ==
    /\ pc = "cleanup"
    /\ ciAttempts = 2
    /\ ciResult = "failed"
    /\ ~ciTimedOut

\* The status changes the scheduler may make
AllowedStatusSteps ==
    {<<"pending", "in_progress">>, <<"in_progress", "completed">>,
     <<"in_progress", "failed">>}

\* C8: a batch's status only moves pending -> in_progress -> {completed,
\* failed}; it never returns to pending, never skips in_progress, and a
\* completed or failed status is never changed again.
C8_StatusMonotonic ==
    [][\A b \in BatchIds :
          status'[b] # status[b] => <<status[b], status'[b]>> \in AllowedStatusSteps]_vars

\* C8 witness: one batch has settled as completed and another as failed
C8_Witness ==
    \E b1, b2 \in BatchIds : status[b1] = "completed" /\ status[b2] = "failed"

\* C9: at every suspension point of processBatches a batch is in_progress
\* if and only if it has an entry in the active-session map.
C9_InProgressIffActive ==
    \A b \in BatchIds : status[b] = "in_progress" <=> b \in ActiveIds

\* C9 witness: during a tick's sleep one batch is active, one has settled
\* and one is still pending
C9_Witness ==
    /\ pc = "tick"
    /\ \E a, b, c \in BatchIds :
          /\ a \in ActiveIds /\ status[a] = "in_progress"
          /\ status[b] \in {"completed", "failed"} /\ b \notin ActiveIds
          /\ status[c] = "pending" /\ c \in Range(pendingBatches)

\* C10: batches are admitted in input (priority) order: create is never
\* attempted for a batch while a batch earlier in the list waits in the
\* pending queue.
C10_AdmissionInOrder ==
    pc \in {"create", "create_resp", "rate_limit_sleep"} =>
        \A i \in DOMAIN pendingBatches : cur < pendingBatches[i]

\* C10 witness: create is attempted again for the first batch after a rate
\* limit put it back, with the later batches still waiting
C10_Witness ==
    /\ pc = "create"
    /\ cur = 1
    /\ rateLimitHits > 0
    /\ pendingBatches = <<2, 3>>

\* C11: for each batch every onProgress call precedes its onComplete call:
\* no onProgress is made for a batch whose onComplete has been called.
\* (onProgress is in flight at the admission and poll progress points.)
C11_ProgressBeforeComplete ==
    pc \in {"admit_progress", "poll_progress"} => completeCalls[cur] = 0

\* C11 witness: onProgress is called for a batch polled after another batch
\* got its onComplete
C11_Witness ==
    /\ pc = "poll_progress"
    /\ completeCalls[cur] = 0
    /\ \E b \in BatchIds : completeCalls[b] = 1

\* C12, the re-queue: when the cooldown of a RateLimited or
\* ConcurrencyLimitExceeded create is over, the batch is at the front of the
\* queue, still pending and without a completion callback
C12_RequeuedAtFront ==
    (pc = "rate_limit_sleep" /\ pc' # pc) =>
        /\ pendingBatches' # <<>>
        /\ Head(pendingBatches') = cur
        /\ Tail(pendingBatches') = pendingBatches
        /\ status'[cur] = "pending"
        /\ cur \notin ActiveIds'
        /\ completeCalls'[cur] = 0
        /\ pc' \notin {"cleanup", "complete", "aborted"}

\* C12, the next attempt: the queue otherwise changes only by giving its
\* head to a create attempt, and every create attempt is for that head
C12_NextAttemptIsHead ==
    /\ (pc # "rate_limit_sleep" /\ pendingBatches # <<>>
        /\ pendingBatches' # pendingBatches) =>
           (pc' = "create" /\ pendingBatches' = Tail(pendingBatches))
    /\ (pc' = "create" /\ pc # "create") =>
           (pendingBatches # <<>> /\ cur' = Head(pendingBatches))

\* C12: after a RateLimited or ConcurrencyLimitExceeded create the batch is
\* put back at the front of the pending queue with status pending, is not
\* failed, gets no completion callback, and is the next batch for which
\* create is attempted.
C12_RateLimitedRequeued ==
    [][C12_RequeuedAtFront /\ C12_NextAttemptIsHead]_vars

\* C12 witness: the second batch was put back by a rate limit while the
\* first is active
C12_Witness ==
    /\ pc = "for"
    /\ rateLimitHits = 1
    /\ status[1] = "in_progress"
    /\ pendingBatches = <<2, 3>>
    /\ status[2] = "pending"
    /\ completeCalls[2] = 0

\* C13, the steps of the ceiling: it never rises, and it falls only by one,
\* only when a rate-limited create is re-queued as the third hit or later
C13_CeilingStep ==
    /\ maxParallelSessions' <= maxParallelSessions
    /\ maxParallelSessions' # maxParallelSessions =>
          /\ maxParallelSessions' = maxParallelSessions - 1
          /\ pc = "rate_limit_sleep"
          /\ rateLimitHits' = rateLimitHits + 1
          /\ rateLimitHits' >= 3

\* C13, the floor: a configured ceiling of at least 1 never falls below 1
C13_CeilingFloor == configured >= 1 => maxParallelSessions >= 1

\* C13: within a run the concurrency ceiling is non-increasing and, for a
\* configured ceiling of at least 1, never below 1; it is lowered by one only
\* on a RateLimited/ConcurrencyLimitExceeded create, third hit onward.
C13_CeilingMonotoneWithFloor ==
    [][C13_CeilingStep]_vars /\ []C13_CeilingFloor

\* C13 witness: the third hit lowered a configured ceiling of 2 to 1
C13_Witness ==
    /\ configured = 2
    /\ rateLimitHits = 3
    /\ maxParallelSessions = 1

\* The severities the ranking names, highest first
SeverityChain == <<"critical", "high", "medium", "low", "warning", "note">>

ChainRank(sev) == CHOOSE r \in DOMAIN SeverityChain : SeverityChain[r] = sev

\* C14: with severity-then-cwe the output is in severity-rank order (every
\* critical batch before every high one, then medium, low, warning, note)
\* and batch priority is non-increasing along the output.
C14_SeverityRankOrder ==
    (partPc = "created" /\ engineStrategy = "severity-then-cwe") =>
        \A i, j \in DOMAIN outBatches :
            i < j =>
                /\ outBatches[i].priority >= outBatches[j].priority
                /\ ({outBatches[i].severity, outBatches[j].severity}
                        \subseteq Range(SeverityChain)) =>
                       ChainRank(outBatches[i].severity)
                           <= ChainRank(outBatches[j].severity)

\* The base scores and complexity bonuses as the priority rule states them
BaseScore(sev) ==
    CASE sev = "critical" -> 100
      [] sev \in {"high", "error"} -> 80
      [] sev = "medium" -> 60
      [] sev = "low" -> 40
      [] sev = "warning" -> 20
      [] sev = "note" -> 10

BucketBonus(bucket) ==
    CASE bucket = "simple" -> 15
      [] bucket = "moderate" -> 5
      [] bucket = "complex" -> 0 - 10

ExpectedPriority(b) ==
    BaseScore(b.severity)
    + (IF 2 * Len(b.alerts) < 20 THEN 2 * Len(b.alerts) ELSE 20)
    + (IF b.strategy = "by-complexity" THEN BucketBonus(b.groupKey[1][1]) ELSE 0)

\* C15: every batch's priority is baseScore(severity) + min(2 * size, 20),
\* plus 15 / 5 / -10 for simple / moderate / complex under by-complexity
\* only; the example input with severity-then-cwe and size 5 gives three
\* batches critical (2), high (1), medium (2) with priorities 104, 82, 64.
C15_PriorityFormula ==
    partPc # "new" =>
        /\ \A i \in DOMAIN outBatches :
              outBatches[i].priority = ExpectedPriority(outBatches[i])
        /\ \A i \in DOMAIN rebatched :
              rebatched[i].priority = ExpectedPriority(rebatched[i])
        /\ (/\ inputAlerts = ExampleList
            /\ engineStrategy = "severity-then-cwe"
            /\ engineMaxBatchSize = 5) =>
               /\ Len(outBatches) = 3
               /\ [i \in 1..3 |-> outBatches[i].severity]
                     = <<"critical", "high", "medium">>
               /\ [i \in 1..3 |-> Len(outBatches[i].alerts)] = <<2, 1, 2>>
               /\ [i \in 1..3 |-> outBatches[i].priority] = <<104, 82, 64>>

\* C15 witness: the example has been partitioned
C15_Witness ==
    /\ partPc = "created"
    /\ inputAlerts = ExampleList
    /\ engineStrategy = "severity-then-cwe"
    /\ engineMaxBatchSize = 5
    /\ Len(outBatches) = 3

\* Batches i and j of the output come from the simple and the complex
\* bucket and agree in size and severity
SimpleComplexPair(i, j) ==
    /\ outBatches[i].groupKey[1] = <<"simple">>
    /\ outBatches[j].groupKey[1] = <<"complex">>
    /\ Len(outBatches[i].alerts) = Len(outBatches[j].alerts)
    /\ outBatches[i].severity = outBatches[j].severity

\* C16: under by-complexity a batch of the simple bucket has strictly higher
\* priority than any batch of the same size and severity of the complex
\* bucket.
C16_SimpleAboveComplex ==
    (partPc = "created" /\ engineStrategy = "by-complexity") =>
        \A i, j \in DOMAIN outBatches :
            SimpleComplexPair(i, j) =>
                outBatches[i].priority > outBatches[j].priority

\* C16 witness: a simple and a complex batch of equal size and severity
C16_Witness ==
    /\ partPc = "created"
    /\ engineStrategy = "by-complexity"
    /\ \E i, j \in DOMAIN outBatches : SimpleComplexPair(i, j)

\* C18: createBatches has no side effect on its input: the call leaves the
\* input list with the same elements in the same order, and every batch it
\* returns has status pending.
C18_InputUntouched ==
    [][(partPc = "new" /\ partPc' = "created") =>
          /\ inputAlerts' = inputAlerts
          /\ \A i \in DOMAIN outBatches' : outBatches'[i].status = "pending"]_vars

\* C18 witness: by-file has returned a batch whose alerts are in another
\* order (sorted by severity) than the input list has them
C18_Witness ==
    /\ partPc = "created"
    /\ engineStrategy = "by-file"
    /\ Len(inputAlerts) = 2
    /\ inputAlerts[1].severity = "high"
    /\ inputAlerts[2].severity = "critical"
    /\ Len(outBatches) = 1
    /\ outBatches[1].alerts = <<inputAlerts[2], inputAlerts[1]>>
    /\ outBatches[1].status = "pending"

\* The group labels of the output and, per label, the places of its batches
\* in output order
OutLabels == {outBatches[i].groupKey[1] : i \in DOMAIN outBatches}

PartsOf(label) ==
    SelectSeq([i \in 1..Len(outBatches) |-> i],
              LAMBDA i : outBatches[i].groupKey[1] = label)

\* The alerts of the batches at the given places, in that order
AlertsAt(places) == Flatten([k \in 1..Len(places) |-> outBatches[places[k]].alerts])

\* The input alerts of a severity-only or severity-then-cwe group
InGroup(a, label) ==
    /\ a.severity = label[1]
    /\ Len(label) = 2 => (IF a.cwe = <<>> THEN "UNKNOWN" ELSE a.cwe[1]) = label[2]

RebatchedPlacesOf(a) ==
    {ij \in (DOMAIN rebatched) \X (DOMAIN inputAlerts) :
        /\ ij[2] <= Len(rebatched[ij[1]].alerts)
        /\ rebatched[ij[1]].alerts[ij[2]] = a}

\* C20: rebatch(batches, newStrategy) is a full re-plan: its result is what
\* createBatches with newStrategy returns for the concatenation of the
\* batches' alerts; every alert of the batches is in exactly one returned
\* batch, and every returned batch is one of newStrategy within the size.
C20_RebatchIsReplan ==
    partPc = "rebatched" =>
        /\ rebatched =
              createBatches(rebatchStrategy, AlertsAt([i \in 1..Len(outBatches) |-> i]),
                            engineMaxBatchSize)
        /\ \A k \in DOMAIN inputAlerts :
              Cardinality(RebatchedPlacesOf(inputAlerts[k])) = 1
        /\ \A i \in DOMAIN rebatched :
              /\ rebatched[i].strategy = rebatchStrategy
              /\ Range(rebatched[i].alerts) \subseteq Range(inputAlerts)
              /\ 1 <= Len(rebatched[i].alerts)
              /\ Len(rebatched[i].alerts) <= engineMaxBatchSize

\* C20 witness: one severity-only batch of two alerts re-planned by-cwe into
\* two batches
C20_Witness ==
    /\ partPc = "rebatched"
    /\ engineStrategy = "severity-only"
    /\ rebatchStrategy = "by-cwe"
    /\ Len(outBatches) = 1
    /\ Len(outBatches[1].alerts) = 2
    /\ Len(rebatched) = 2

\* The batch of a list that carries the given id, when exactly one does
PlacesWithId(batches, id) == {j \in DOMAIN batches : batches[j].id = id}

\* C21, the returned list: it has one batch per input batch, the batch with
\* the given id carries the new priority and is otherwise as in the input,
\* every other batch is as in the input, and priorities do not increase
\* along the list
C21_ResultSorted ==
    partPc = "prioritized" =>
        /\ Len(prioritized) = Len(outBatches)
        /\ \A j \in 1..(Len(prioritized) - 1) :
              prioritized[j].priority >= prioritized[j + 1].priority
        /\ \A i \in DOMAIN outBatches :
              /\ Cardinality(PlacesWithId(prioritized, outBatches[i].id)) = 1
              /\ \A j \in PlacesWithId(prioritized, outBatches[i].id) :
                    /\ prioritized[j].alerts = outBatches[i].alerts
                    /\ prioritized[j].strategy = outBatches[i].strategy
                    /\ prioritized[j].groupKey = outBatches[i].groupKey
                    /\ prioritized[j].severity = outBatches[i].severity
                    /\ prioritized[j].status = outBatches[i].status
                    /\ prioritized[j].priority =
                          IF outBatches[i].id = prioritizeArgs.batchId
                          THEN prioritizeArgs.newPriority
                          ELSE outBatches[i].priority

\* C21, the input: the call leaves the list it was given as it was
C21_InputKept ==
    (partPc = "created" /\ partPc' = "prioritized") => outBatches' = outBatches

\* C21: prioritizeBatch(batches, id, p) returns the same set of batches sorted
\* by non-increasing priority, in which only the batch with the given id has
\* its priority replaced by p; the input list and its batches are not modified.
C21_PrioritizeBatch == [][C21_InputKept]_vars /\ []C21_ResultSorted

\* C21 witness: the last batch of the list got priority 1000 and is first in
\* the returned list, in front of two others
C21_Witness ==
    /\ partPc = "prioritized"
    /\ Len(outBatches) >= 3
    /\ prioritizeArgs.batchId = outBatches[Len(outBatches)].id
    /\ prioritizeArgs.newPriority = 1000
    /\ prioritized[1].id = prioritizeArgs.batchId
    /\ prioritized[1].priority = 1000
    /\ outBatches[Len(outBatches)].priority < 1000

\* The sum of the values of a record of counts
RECURSIVE SumOfCounts(_, _)
SumOfCounts(counts, keys) ==
    IF keys = {} THEN 0
    ELSE LET k == CHOOSE k \in keys : TRUE
         IN  counts[k] + SumOfCounts(counts, keys \ {k})

\* C22: getBatchSummary is consistent with its input: totalBatches is the
\* number of batches, totalAlerts is the sum of batch sizes, the bySeverity
\* counts sum to totalAlerts and the byStatus counts sum to totalBatches.
C22_SummaryConsistent ==
    partPc = "summarized" =>
        /\ summary.totalBatches = Len(summaryInput)
        /\ summary.totalAlerts = Len(FlatMapAlerts(summaryInput))
        /\ SumOfCounts(summary.bySeverity, DOMAIN summary.bySeverity)
              = summary.totalAlerts
        /\ SumOfCounts(summary.byStatus, DOMAIN summary.byStatus)
              = summary.totalBatches

\* C22 witness: a summary of batches of two severities and three statuses,
\* with more alerts than batches
C22_Witness ==
    /\ partPc = "summarized"
    /\ Cardinality(DOMAIN summary.bySeverity) >= 2
    /\ DOMAIN summary.byStatus = {"pending", "completed", "failed"}
    /\ summary.totalAlerts > summary.totalBatches

\* C23, the paused iteration: when checkPaused reported paused, up to the
\* next loop guard nothing is called but the sleep (no create, poll, message,
\* terminate, no callback), and the queue, the active set, the statuses and
\* the counts of calls are as before
C23_PausedIterationIdle ==
    ((pc = "check_paused" /\ pc' = "pause_sleep") \/ pc = "pause_sleep") =>
        /\ pc' \in {"pause_sleep", "loop"}
        /\ UNCHANGED <<pendingBatches, activeSessions, status, nextSession,
                       terminateCalls, completeCalls, completedSessions>>

\* C23, the consultation: the admission step is entered only from a
\* checkPaused that reported not paused, and a create is called only within
\* the admission step
C23_ConsultedBeforeAdmission ==
    /\ (pc' = "admit" /\ pc \notin {"admit", "create_resp", "admit_progress"}) =>
           pc = "check_paused"
    /\ (pc' \in {"start_delay", "create"} /\ pc' # pc) =>
           pc \in {"admit", "start_delay"}

\* C23: While the pause signal reports paused, an iteration of the control
\* loop makes no create, poll, message or terminate call, emits no callback
\* and leaves the pending queue, the active set and every batch status
\* unchanged; the pause is consulted before every admission step.
C23_PauseFrame ==
    [][C23_PausedIterationIdle /\ C23_ConsultedBeforeAdmission]_vars

\* C23 witness: the run is paused while a batch is active and others wait
C23_Witness ==
    /\ pc = "pause_sleep"
    /\ activeSessions # <<>>
    /\ pendingBatches # <<>>
    /\ \E b \in BatchIds : status[b] = "in_progress"

\* C24: processBatches always terminates (returns or throws), provided the
\* clock advances and every remote call returns: the loop ends when no batch
\* is pending or active, or when the global wall-clock ceiling is exceeded,
\* including when the pause signal stays on forever or every create is rate
\* limited.
C24_Terminates == <>(pc \in {"returned", "aborted"})

\* C24 witness: a run in which every create was rate limited has returned
\* by the global ceiling, its batch still pending
C24_Witness ==
    /\ pc = "returned"
    /\ ceilingHit
    /\ nextSession = 1
    /\ rateLimitHits = MaxRateLimitHits
    /\ pendingBatches # <<>>

\* The gate and what precedes it: updatePRDescription and waitForCIChecks
GatePoints == {"update_pr", "ci_sleep", "ci_check", "ci_message"}

\* The terminal condition as the text gives it, for the snapshot at hand
SnapshotTerminal ==
    \/ snap.status = "finished"
    \/ snap.status = "expired"
    \/ snap.status = "suspended"
    \/ (snap.progress = 100 /\ snap.pr = TRUE)

\* C25, the step that follows the progress callback of a poll: the batch
\* leaves the polled state (for the gate or for its settlement) exactly when
\* the snapshot is terminal, and is otherwise still active and in_progress
C25_TerminalTest ==
    (pc = "poll_progress" /\ pc' # pc) =>
        /\ SnapshotTerminal <=> pc' \in {"update_pr", "cleanup"}
        /\ ~SnapshotTerminal =>
              /\ pc' = "for"
              /\ status'[cur] = "in_progress"
              /\ cur \in ActiveIds'
              /\ completeCalls'[cur] = 0

\* C25: A polled snapshot is treated as terminal exactly when its raw status
\* is finished, expired or suspended, or when it reports progress 100
\* together with a PR reference; a snapshot with progress 100 but no PR
\* reference and a non-terminal status keeps the batch in_progress.
C25_TerminalExactly == [][C25_TerminalTest]_vars

\* C25 witness: a poll returned progress 100 without a PR reference and the
\* status working; the batch is active and in_progress
C25_Witness ==
    /\ pc = "poll_progress"
    /\ snap.progress = 100
    /\ ~snap.pr
    /\ snap.status = "working"
    /\ status[cur] = "in_progress"
    /\ cur \in ActiveIds

\* C26, the settlement: a terminal snapshot without a PR reference settles
\* the batch at once, from the raw status, with no gate result
C26_SettlesFromRaw ==
    (pc = "poll_progress" /\ pc' # pc /\ SnapshotTerminal /\ ~snap.pr) =>
        /\ pc' = "cleanup"
        /\ ciResult' = "none"
        /\ cur \notin ActiveIds'
        /\ snap.status = "finished" => status'[cur] = "completed"
        /\ snap.status \in {"expired", "suspended"} => status'[cur] = "failed"

\* C26, the gate: it runs only for a snapshot that has a PR reference
C26_GateNeedsPr == pc \in GatePoints => snap.pr

\* C26: When a task reaches a terminal condition with no PR reference, the
\* gate is not run and the batch settles directly from the raw status:
\* finished gives completed, expired or suspended gives failed.
C26_NoPrSettlesDirectly == [][C26_SettlesFromRaw]_vars /\ []C26_GateNeedsPr

\* C26 witness: a task that expired without a PR reference; its batch is
\* failed and about to be cleaned up, no gate result
C26_Witness ==
    /\ pc = "cleanup"
    /\ settledBy = "terminal"
    /\ ciResult = "none"
    /\ status[cur] = "failed"
    /\ cur \in completedSessions

\* C27, the states: in_progress and nothing called during the gate; settled
\* and not yet terminated at the cleanup; terminated once and no onComplete
\* yet when onComplete is called
C27_GateOrderStates ==
    /\ pc \in GatePoints =>
          /\ status[cur] = "in_progress"
          /\ cur \in ActiveIds
          /\ terminateCalls[SessionOf(cur)] = 0
          /\ completeCalls[cur] = 0
    /\ (pc = "cleanup" /\ ciResult # "none") =>
          /\ status[cur] \in {"completed", "failed"}
          /\ terminateCalls[curSession] = 0
          /\ completeCalls[cur] = 0
    /\ (pc = "complete" /\ ciResult # "none") =>
          /\ status[cur] \in {"completed", "failed"}
          /\ terminateCalls[curSession] = 1
          /\ completeCalls[cur] = 0

\* C27, the steps: the gate is left only with its result, for the cleanup;
\* the cleanup is followed by onComplete, which is then counted once
C27_GateOrderSteps ==
    /\ (pc \in GatePoints /\ pc' \notin GatePoints) =>
          /\ pc' = "cleanup"
          /\ ciResult' \in {"passed", "failed"}
          /\ status'[cur] \in {"completed", "failed"}
    /\ (pc = "cleanup" /\ pc' # pc) => pc' = "complete"
    /\ (pc = "complete" /\ pc' # pc) => completeCalls'[cur] = 1

\* C27: For a batch whose task is terminal and has a PR reference, the batch
\* status stays in_progress during the gate, and the order of events is: gate
\* resolves (result or gate timeout), then the status becomes completed or
\* failed, then terminate is called on the task, then onComplete fires.
C27_GateThenSettleThenTerminate ==
    [][C27_GateOrderSteps]_vars /\ []C27_GateOrderStates

\* C27 witness: the gate timed out, the batch is settled, terminate has been
\* called and onComplete is being called
C27_Witness ==
    /\ pc = "complete"
    /\ ciResult = "failed"
    /\ ciTimedOut
    /\ terminateCalls[curSession] = 1
    /\ completeCalls[cur] = 0

\* C28, the count: a batch settled for poll errors has had 5 failed polls in
\* a row, is failed and out of the active set; an active batch has had less
C28_FailsAtFive ==
    /\ (pc \in {"cleanup", "complete"} /\ settledBy = "retries") =>
          /\ failStreak[cur] = 5
          /\ status[cur] = "failed"
          /\ cur \notin ActiveIds
          /\ completeCalls[cur] = 0
          /\ terminateCalls[curSession] = IF pc = "cleanup" THEN 0 ELSE 1
    /\ \A b \in ActiveIds : failStreak[b] < 5

\* C28, the steps: the fifth failed poll in a row settles the batch, an
\* earlier one does not, and the settlement is followed by terminate and
\* onComplete
C28_FailureSteps ==
    /\ (pc = "poll_resp" /\ pc' # pc /\ resp \in {"http403", "http429", "http500", "neterr"}) =>
          IF failStreak[cur] = 4
          THEN pc' = "cleanup" /\ settledBy' = "retries"
          ELSE pc' = "for" /\ cur \in ActiveIds' /\ status'[cur] = "in_progress"
    /\ (pc = "complete" /\ pc' # pc /\ settledBy = "retries") =>
          completeCalls'[cur] = 1

\* C28: A batch is failed for poll errors only after MAX_POLL_RETRIES (5)
\* consecutive failed polls: every successful poll resets the failure counter
\* to 0, so failures separated by a success never add up; on reaching the
\* ceiling the batch is marked failed, its task terminated and onComplete
\* emitted.
C28_FiveConsecutiveFailures == [][C28_FailureSteps]_vars /\ []C28_FailsAtFive

\* C28 witness: the fifth failed poll in a row has failed the batch, its
\* task is terminated and onComplete is being called
C28_Witness ==
    /\ pc = "complete"
    /\ settledBy = "retries"
    /\ failStreak[cur] = 5
    /\ status[cur] = "failed"
    /\ terminateCalls[curSession] = 1

\* The interval after a backoff by 1.5 with the maximum of 60 s, in ms
BackedOff(interval) ==
    IF interval * 3 >= 120000 THEN 60000 ELSE (interval * 3) \div 2

\* A poll of the batch at hand failed below the retry ceiling
FailedPollBelowCeiling ==
    /\ pc = "poll_resp"
    /\ pc' = "for"
    /\ resp \in {"http403", "http429", "http500", "neterr"}

\* C29, as claimed: Each failed poll below the retry ceiling sets the batch's
\* next-poll interval to min(previous interval * backoff multiplier 1.5,
\* maximum interval 60 s), for every kind of poll failure including a
\* rate-limited (429) poll; a successful poll resets the interval to the
\* initial 10 s.
C29_BackoffUniform ==
    [][/\ FailedPollBelowCeiling =>
             pollIntervals'[cur] = BackedOff(pollIntervals[cur])
       /\ (pc = "poll_resp" /\ pc' = "poll_progress") =>
             pollIntervals'[cur] = 10000]_vars

\* C29, amended: Each failed poll below the retry ceiling sets the batch's
\* next-poll interval to min(previous interval * backoff multiplier 1.5,
\* maximum interval 60 s), for every kind of poll failure except a
\* rate-limited (429) poll, which sets it to min(min(previous interval * 3,
\* 60 s) * 1.5, 60 s); a successful poll resets the interval to the initial
\* 10 s.
C29_BackoffByKind ==
    [][/\ (FailedPollBelowCeiling /\ resp # "http429") =>
             pollIntervals'[cur] = BackedOff(pollIntervals[cur])
       /\ (FailedPollBelowCeiling /\ resp = "http429") =>
             pollIntervals'[cur] =
                BackedOff(IF pollIntervals[cur] * 3 >= 60000 THEN 60000
                          ELSE pollIntervals[cur] * 3)
       /\ (pc = "poll_resp" /\ pc' = "poll_progress") =>
             pollIntervals'[cur] = 10000]_vars

\* C29 witness: one rate-limited poll took the interval of a batch from 10 s
\* to 45 s, while another batch that failed once otherwise is at 15 s
C29_Witness ==
    /\ pc = "for"
    /\ \E b \in ActiveIds : pollIntervals[b] = 45000 /\ failStreak[b] = 1
    /\ \E b \in ActiveIds : pollIntervals[b] = 15000 /\ failStreak[b] = 1

\* C30: At the end of every non-paused iteration the loop sleeps for the
\* minimum of the current poll intervals of all active batches, and never for
\* less than the fixed minimum of 10 s; so when every active batch has backed
\* off to an interval above 10 s the sleep equals the smallest of those
\* intervals.
C30_TickSleepsMinInterval ==
    pc = "tick" =>
        /\ lastSleep >= 10000
        /\ ActiveIds # {} =>
              /\ \E b \in ActiveIds : lastSleep = pollIntervals[b]
              /\ \A b \in ActiveIds : lastSleep <= pollIntervals[b]

\* C33: under by-file, by-cwe and by-complexity a batch's severity is the
\* highest-ranked severity among its alerts, so no alert of the batch has a
\* base priority score above that of the batch's severity (error counts as
\* high, 80).
C33_BatchSeverityDominates ==
    (partPc # "new" /\ engineStrategy \in {"by-file", "by-cwe", "by-complexity"}) =>
        \A i \in DOMAIN outBatches :
            \A k \in DOMAIN outBatches[i].alerts :
                BaseScore(outBatches[i].alerts[k].severity)
                    <= BaseScore(outBatches[i].severity)

\* C31: any two consecutive create calls of a run are at least the start
\* delay (30 s) apart, whatever the earlier call returned: a create call is
\* only issued when none came before or a wait of that length lies between.
C31_CreatesSpaced ==
    [][(pc' = "create" /\ pc # "create") => createSpaced]_vars

\* C35: the number of active sessions never exceeds the current adaptive
\* ceiling, in every state, also right after the ceiling was lowered.
C35_ActiveWithinAdaptiveCeiling ==
    Len(activeSessions) <= maxParallelSessions

\* C35 witness: the ceiling was lowered to 1 at a re-queue while one session
\* is active
C35_Witness ==
    /\ pc = "for"
    /\ configured = 2
    /\ maxParallelSessions = 1
    /\ Len(activeSessions) = 1
    /\ pendingBatches # <<>>

\* What a check of the gate does with the status it observed
C32_GateResult ==
    \* a gate result of true is a success just observed with fewer than
    \* MAX_CI_ATTEMPTS failures before it; a result of false is no success,
    \* and either MAX_CI_ATTEMPTS failures or the timeout
    /\ ciResult = "passed" => ciSeen = "success" /\ ciAttempts < MAX_CI_ATTEMPTS
    /\ ciResult = "failed" =>
          /\ ciSeen # "success"
          /\ ciAttempts = MAX_CI_ATTEMPTS \/ ciTimedOut
    \* a success observed is answered by the return of true at once
    /\ ciSeen = "success" => ciResult = "passed" /\ pc \in {"cleanup", "complete"}
    \* messages per gate
    /\ ciMessages <= MAX_CI_ATTEMPTS - 1
    /\ ciMessages <= ciAttempts

\* a step in which getPRCheckStatus returns
C32_Observation == pc = "ci_check" /\ pc' # "ci_check"

C32_GateSteps ==
    \* a check is only made with fewer than MAX_CI_ATTEMPTS failures counted
    /\ pc = "ci_check" => ciAttempts < MAX_CI_ATTEMPTS
    \* a success observed is answered by the return of true at once
    /\ (C32_Observation /\ ciSeen' = "success") =>
          /\ pc' = "cleanup" /\ ciResult' = "passed"
          /\ ciAttempts' = ciAttempts /\ ciMessages' = ciMessages
    \* a message is sent only at the observation of a failure that leaves
    \* attempts, and is the gate's next call
    /\ ciMessages' > ciMessages =>
          /\ C32_Observation /\ pc' = "ci_message"
          /\ ciSeen' = "failure"
          /\ ciAttempts' = ciAttempts + 1
          /\ ciAttempts' < MAX_CI_ATTEMPTS
          /\ ciMessages' = ciMessages + 1
    \* a failure that leaves attempts is answered by a message
    /\ (C32_Observation /\ ciSeen' = "failure" /\ ciAttempts' < MAX_CI_ATTEMPTS) =>
          pc' = "ci_message" /\ ciMessages' = ciMessages + 1
    \* the last counted failure ends the gate with false and no message
    /\ (C32_Observation /\ ciAttempts' = MAX_CI_ATTEMPTS) =>
          /\ ciSeen' = "failure"
          /\ ciMessages' = ciMessages
          /\ pc' = "cleanup" /\ ciResult' = "failed"
    \* neither success nor failure: the gate goes on, or returns false when
    \* its timeout has elapsed
    /\ (C32_Observation /\ ciSeen' = "pending") =>
          /\ ciAttempts' = ciAttempts /\ ciMessages' = ciMessages
          /\ IF ciTimedOut THEN pc' = "cleanup" /\ ciResult' = "failed"
             ELSE pc' = "ci_sleep"
    \* the gate goes on only without a result
    /\ pc' \in {"ci_sleep", "ci_check", "ci_message"} => ciResult' = "none"

C34_AtAdmissionCallback ==
    pc = "admit_progress" =>
        /\ cur \in ActiveIds
        /\ status[cur] = "in_progress"
        /\ createOk[cur] = 1
        \* nothing of a poll of the batch exists yet
        /\ resp = "none" /\ snap = NoSnap
        /\ pollRetries[cur] = 0 /\ failStreak[cur] = 0
        /\ pollIntervals[cur] = INITIAL_POLL_INTERVAL_MS
        /\ completeCalls[cur] = 0

C34_AdmissionSteps ==
    \* the step in which a create succeeds marks the batch in_progress and
    \* calls onProgress for it
    /\ createOk' # createOk =>
          /\ pc = "create_resp" /\ pc' = "admit_progress"
          /\ cur' = cur
          /\ status[cur] = "pending" /\ status'[cur] = "in_progress"
    \* the callback returns to the guard of the admission loop
    /\ (pc = "admit_progress" /\ pc' # pc) => pc' = "admit"
    \* a poll is issued from the progress loop only, a create from the
    \* admission loop only
    /\ (pc' = "poll" /\ pc # "poll") => pc = "for"
    /\ (pc' = "create" /\ pc # "create") => pc \in {"admit", "start_delay"}

\* C34: on a successful create the batch becomes in_progress and onProgress
\* is called for it at once, before any poll of the batch's session and
\* before the next create attempt.
C34_ProgressOnAdmission ==
    [][C34_AdmissionSteps]_vars /\ []C34_AtAdmissionCallback

\* C34 witness: the admission callback of a second batch, with one batch
\* active before it and one still queued
C34_Witness ==
    /\ pc = "admit_progress"
    /\ Len(activeSessions) = 2
    /\ activeSessions[2].batchId = cur
    /\ pendingBatches # <<>>

SettlePaths == {"terminal", "timeout", "retries"}

\* onComplete calls per batch, between two steps
C36_CompleteCount ==
    \A b \in BatchIds :
        /\ completeCalls[b] <= 1
        /\ completeCalls[b] = 1 => status[b] \in {"completed", "failed"}
        /\ status[b] \in {"completed", "failed"} =>
              \/ completeCalls[b] = 1
              \/ /\ cur = b
                 /\ pc \in {"cleanup", "complete"}
                 /\ settledBy \in SettlePaths

C36_CompleteSteps ==
    \* a batch settles on one of the three paths, with no onComplete before
    /\ \A b \in BatchIds :
          (status[b] = "in_progress" /\ status'[b] # "in_progress") =>
              /\ status'[b] \in {"completed", "failed"}
              /\ cur' = b /\ pc' = "cleanup"
              /\ settledBy' \in SettlePaths
              /\ completeCalls[b] = 0 /\ completeCalls'[b] = 0
    \* from the settlement the run goes through cleanupSession to onComplete
    \* of that batch and nowhere else
    /\ (pc = "cleanup" /\ pc' # pc) =>
          pc' = "complete" /\ cur' = cur /\ settledBy' = settledBy
    /\ (pc = "complete" /\ pc' # pc) =>
          /\ pc' = "for"
          /\ completeCalls' = [completeCalls EXCEPT ![cur] = 1]
    \* onComplete is called there only
    /\ completeCalls' # completeCalls => pc = "complete" /\ settledBy \in SettlePaths

\* C36: onComplete is called at most once per batch, and exactly once for
\* every batch that goes from in_progress to completed or failed, on each
\* of the three settle paths (terminal poll, per-batch timeout, poll retries
\* exhausted).
C36_CompleteExactlyOnce ==
    [][C36_CompleteSteps]_vars /\ []C36_CompleteCount

\* C36 witness: onComplete is about to be called for a batch failed by its
\* timeout, after it was called once for a batch settled by a terminal poll
\* and once for a batch failed without one
C36_Witness ==
    /\ pc = "complete"
    /\ settledBy = "timeout"
    /\ completeCalls[cur] = 0
    /\ \E b \in completedSessions : completeCalls[b] = 1
    /\ \E b \in BatchIds \ completedSessions :
          b # cur /\ status[b] = "failed" /\ completeCalls[b] = 1

\* the session ids of the active map
ActiveSessionIds == {activeSessions[i].sessionId : i \in DOMAIN activeSessions}

\* terminate calls per session, between two steps
C37_TerminateCount ==
    \A k \in BatchIds :
        /\ terminateCalls[k] <= 1
        \* a session whose batch is in_progress, also after the run ended
        /\ k \in ActiveSessionIds => terminateCalls[k] = 0
        \* a session never created
        /\ k >= nextSession => terminateCalls[k] = 0
        \* a session whose batch settled
        /\ (k < nextSession /\ k \notin ActiveSessionIds) =>
              \/ terminateCalls[k] = 1
              \/ pc = "cleanup" /\ curSession = k /\ terminateCalls[k] = 0

C37_TerminateSteps ==
    \* terminate is called in cleanupSession only, for the session of the batch
    \* that just settled, before its onComplete
    /\ terminateCalls' # terminateCalls =>
          /\ pc = "cleanup"
          /\ terminateCalls' = [terminateCalls EXCEPT ![curSession] = 1]
          /\ status[cur] \in {"completed", "failed"}
          /\ cur \notin ActiveIds
          /\ settledBy \in SettlePaths
          /\ completeCalls[cur] = 0
    \* every settlement hands the batch's session to cleanupSession
    /\ \A i \in DOMAIN activeSessions :
          activeSessions[i].sessionId \notin
                {activeSessions'[j].sessionId : j \in DOMAIN activeSessions'} =>
              /\ pc' = "cleanup"
              /\ curSession' = activeSessions[i].sessionId
              /\ cur' = activeSessions[i].batchId
              /\ status'[cur'] \in {"completed", "failed"}
    /\ (pc = "cleanup" /\ pc' # pc) => terminateCalls'[curSession] = 1

\* C37: terminate is called exactly once on a batch's session when the batch
\* settles as completed or failed, on every settle path, and never on the
\* session of a batch that is still in_progress, also when the run ends by
\* the global ceiling or a Fatal abort.
C37_TerminateExactlyOnSettle ==
    [][C37_TerminateSteps]_vars /\ []C37_TerminateCount

\* C37 witness: the run ended by the global ceiling with one session
\* terminated after its batch settled and another left running
C37_Witness ==
    /\ pc = "returned"
    /\ ceilingHit
    /\ \E k \in ActiveSessionIds : terminateCalls[k] = 0
    /\ \E k \in BatchIds : terminateCalls[k] = 1

\* The keys of the map processBatches builds, between two steps
C38_MapKeys ==
    \A b \in BatchIds :
        /\ b \in completedSessions =>
              /\ status[b] \in {"completed", "failed"}
              /\ createOk[b] = 1
        \* never started, dropped or still running: no entry
        /\ status[b] \in {"pending", "in_progress"} => b \notin completedSessions
        \* completed is reached through a terminal poll only
        /\ status[b] = "completed" => b \in completedSessions

C38_MapSteps ==
    \* a batch that settles gets its entry exactly when the settlement follows
    \* a successful poll that showed a terminal condition: directly, or after
    \* the gate; not when it follows the timeout check or a failed poll
    /\ \A b \in BatchIds :
          (status[b] = "in_progress" /\ status'[b] # "in_progress") =>
              /\ b \notin completedSessions
              /\ IF pc \in {"poll_progress", "ci_check", "ci_message"}
                 THEN /\ IsTerminal(snap)
                      /\ settledBy' = "terminal"
                      /\ completedSessions' = completedSessions \cup {b}
                 ELSE /\ pc \in {"for", "poll_resp"}
                      /\ pc = "for" => b \in batchTimedOut /\ settledBy' = "timeout"
                      /\ pc = "poll_resp" =>
                            resp \in PollErrors /\ settledBy' = "retries"
                      /\ completedSessions' = completedSessions
    \* the map changes at a settlement only
    /\ completedSessions' # completedSessions =>
          \E b \in BatchIds : status[b] = "in_progress" /\ status'[b] # "in_progress"

\* C38: the map processBatches returns has an entry for exactly the batches
\* settled because a successful poll showed a terminal condition; batches
\* failed by their timeout or by exhausted poll retries, and batches never
\* started, have none.
C38_ReturnedMap ==
    [][C38_MapSteps]_vars /\ []C38_MapKeys

\* C38 witness: a normal return with one batch in the map, one batch failed
\* without an entry and one batch that never started
C38_Witness ==
    /\ pc = "returned"
    /\ ~ceilingHit
    /\ \E b \in completedSessions : status[b] \in {"completed", "failed"}
    /\ \E b \in BatchIds \ completedSessions : status[b] = "failed"
    /\ \E b \in BatchIds \ completedSessions : status[b] = "pending"

\* Queue, active map and sessions created, between two steps
C39_OneSessionPerBatch ==
    /\ \A b \in BatchIds : createOk[b] <= 1
    /\ Cardinality({b \in BatchIds : createOk[b] = 1}) = nextSession - 1
    \* no id both queued and active, no id queued twice
    /\ Range(pendingBatches) \cap ActiveIds = {}
    /\ Cardinality(Range(pendingBatches)) = Len(pendingBatches)
    \* a queued batch, and the batch of a create in flight, has no session
    /\ \A b \in Range(pendingBatches) : createOk[b] = 0 /\ status[b] = "pending"
    /\ pc \in {"create", "create_resp", "rate_limit_sleep"} =>
          /\ createOk[cur] = 0
          /\ cur \notin Range(pendingBatches)
          /\ cur \notin ActiveIds

C39_QueueSteps ==
    \* a create succeeds for a batch without a session that is not queued
    /\ createOk' # createOk =>
          /\ pc = "create_resp" /\ resp = "ok"
          /\ createOk[cur] = 0
          /\ createOk' = [createOk EXCEPT ![cur] = 1]
          /\ pendingBatches' = pendingBatches
    \* after the queue is filled at the start, a batch enters it only at the
    \* front, after its create returned a rate limit or a session limit
    /\ (pc # "start" /\ Range(pendingBatches') \ Range(pendingBatches) # {}) =>
          /\ pc = "rate_limit_sleep"
          /\ pendingBatches' = <<cur>> \o pendingBatches
          /\ createOk[cur] = 0 /\ createOk' = createOk
    /\ (pc' = "rate_limit_sleep" /\ pc # "rate_limit_sleep") =>
          pc = "create_resp" /\ resp \in LimitOutcomes

\* C39: every batch gets at most one session per run: create succeeds at
\* most once per batch, a batch is put back in the queue only after a rate
\* limit or session limit (never after a success), and no batch id is in the
\* pending queue and in the active map at once.
C39_AtMostOneSession ==
    [][C39_QueueSteps]_vars /\ []C39_OneSessionPerBatch

\* C39 witness: the first batch gets its session after it was re-queued for
\* a rate limit, with other batches still queued
C39_Witness ==
    /\ pc = "admit_progress"
    /\ cur = 1
    /\ rateLimitHits >= 1
    /\ createOk[1] = 1
    /\ nextSession = 2
    /\ pendingBatches # <<>>

====
